---- MODULE Spec2Model ----
(***************************************************************************)
(* Conversation-phase analysis, recommendation validation, the two        *)
(* request handlers (app/api/assistant/route.ts and                       *)
(* app/api/map-recommendations/route.ts), the errors of the gateway       *)
(* client, the retry loop of the caller, and the event handlers of the    *)
(* voice session (Home) and of the map view (MapView) in app/page.tsx.    *)
(*                                                                         *)
(* Text is a sequence of one-character strings, so the regular            *)
(* expressions of the analyzer are evaluated position by position.        *)
(***************************************************************************)
EXTENDS Integers, Sequences, FiniteSets, TLC

VARIABLES messages, analysis, prior, llm, raw, validation, body, pc, sent, reply, response,
          upstream, client, home, mapView

vars ==
    <<messages, analysis, prior, llm, raw, validation, body, pc, sent, reply, response,
      upstream, client, home, mapView>>

(***************************************************************************)
(* Bounds                                                                  *)
(***************************************************************************)
MaxLog == 2

(***************************************************************************)
(* Characters and the regular-expression primitives                        *)
(***************************************************************************)
LowerAlphabet == <<"a","b","c","d","e","f","g","h","i","j","k","l","m","n","o","p","q","r","s","t","u","v","w","x","y","z">>
UpperAlphabet == <<"A","B","C","D","E","F","G","H","I","J","K","L","M","N","O","P","Q","R","S","T","U","V","W","X","Y","Z">>

Digits == {"0","1","2","3","4","5","6","7","8","9"}

LowerSet == {LowerAlphabet[i] : i \in 1..Len(LowerAlphabet)}

UpperSet == {UpperAlphabet[i] : i \in 1..Len(UpperAlphabet)}

\* \w of a JavaScript regular expression
IsWordChar(c) == c \in LowerSet \cup UpperSet \cup Digits \cup {"_"}

\* \d
IsDigit(c) == c \in Digits

\* \s (the white space that occurs in the modelled texts)
IsSpace(c) == c \in {" ", "\n", "\t"}

ToLowerCase(s) ==
    LET \* String.prototype.toLowerCase on one character
        ToLowerChar(c) ==
            IF c \in UpperSet
            THEN LowerAlphabet[CHOOSE i \in 1..Len(UpperAlphabet) : UpperAlphabet[i] = c]
            ELSE c
    IN
        [i \in 1..Len(s) |-> ToLowerChar(s[i])]

\* the literal kw occurs in s starting at position i
MatchAt(s, i, kw) ==
    /\ i >= 1
    /\ i + Len(kw) - 1 <= Len(s)
    /\ \A j \in 1..Len(kw) : s[i + j - 1] = kw[j]

\* \b holds between s[i-1] and s[i]
WordBoundary(s, i) ==
    LET before == i > 1 /\ i - 1 <= Len(s) /\ IsWordChar(s[i - 1])
        after  == i >= 1 /\ i <= Len(s) /\ IsWordChar(s[i])
    IN  before # after

\* \bkw\b occurs somewhere in s, for some kw of kws
HasWholeWord(s, kws) ==
    \E i \in 1..Len(s) : \E kw \in kws :
        /\ MatchAt(s, i, kw)
        /\ WordBoundary(s, i)
        /\ WordBoundary(s, i + Len(kw))

(***************************************************************************)
(* The pattern families of shouldGenerateRecommendations                   *)
(***************************************************************************)
IntentPhrases ==
    { <<"w","a","n","t"," ","t","o">>, <<"g","o","i","n","g"," ","t","o">>,
      <<"v","i","s","i","t">>, <<"t","r","a","v","e","l"," ","t","o">>,
      <<"i","n","t","e","r","e","s","t","e","d"," ","i","n">>, <<"t","h","i","n","k","i","n","g"," ","a","b","o","u","t">> }

DestinationNouns ==
    { <<"b","e","a","c","h">>, <<"m","o","u","n","t","a","i","n">>, <<"c","i","t","y">>,
      <<"e","u","r","o","p","e">>, <<"a","s","i","a">>, <<"a","f","r","i","c","a">>,
      <<"a","m","e","r","i","c","a">>, <<"c","o","u","n","t","r","y">>, <<"i","s","l","a","n","d">> }

BudgetWords ==
    { <<"b","u","d","g","e","t">>, <<"s","p","e","n","d">>, <<"a","f","f","o","r","d">>,
      <<"c","o","s","t">>, <<"p","r","i","c","e">>, <<"c","h","e","a","p">>,
      <<"e","x","p","e","n","s","i","v","e">> }

CurrencyNames ==
    { <<"d","o","l","l","a","r","s">>, <<"u","s","d">>,
      <<"e","u","r","o","s">>, <<"p","o","u","n","d","s">> }

MonthNames ==
    { <<"j","a","n","u","a","r","y">>, <<"f","e","b","r","u","a","r","y">>,
      <<"m","a","r","c","h">>, <<"a","p","r","i","l">>,
      <<"m","a","y">>, <<"j","u","n","e">>,
      <<"j","u","l","y">>, <<"a","u","g","u","s","t">>,
      <<"s","e","p","t","e","m","b","e","r">>, <<"o","c","t","o","b","e","r">>,
      <<"n","o","v","e","m","b","e","r">>, <<"d","e","c","e","m","b","e","r">> }

NextPeriods ==
    { <<"w","e","e","k">>, <<"m","o","n","t","h">>, <<"y","e","a","r">>,
      <<"s","u","m","m","e","r">>, <<"w","i","n","t","e","r">>, <<"s","p","r","i","n","g">>,
      <<"f","a","l","l">> }

InUnits ==
    { <<"d","a","y","s">>, <<"w","e","e","k","s">>, <<"m","o","n","t","h","s">> }

Hedges ==
    { <<"s","o","o","n">>, <<"l","a","t","e","r">>, <<"p","l","a","n","n","i","n","g">> }

\* /\b(want to|...)\s+\w+/ || /\b(beach|...)\b/
HasDestination(text) ==
    LET \* \s+\w+ matches starting at position p
        SpacesThenWord(s, p) ==
            \E q \in (p + 1)..Len(s) :
                /\ \A r \in p..(q - 1) : IsSpace(s[r])
                /\ IsWordChar(s[q])
    IN
        \/ \E i \in 1..Len(text) : \E kw \in IntentPhrases :
              /\ MatchAt(text, i, kw)
              /\ WordBoundary(text, i)
              /\ SpacesThenWord(text, i + Len(kw))
        \/ HasWholeWord(text, DestinationNouns)

\* /\$\d+|budget|...|\d+\s*(dollars|usd|euros|pounds)/
HasBudget(text) ==
    LET \* kw occurs somewhere in s, for some kw of kws
        HasSubstring(s, kws) ==
            \E i \in 1..Len(s) : \E kw \in kws : MatchAt(s, i, kw)
    IN
        \/ \E i \in 1..(Len(text) - 1) : text[i] = "$" /\ IsDigit(text[i + 1])
        \/ HasSubstring(text, BudgetWords)
        \/ \E i \in 1..Len(text) :
              /\ IsDigit(text[i])
              /\ \E q \in (i + 1)..Len(text) :
                    /\ \A r \in (i + 1)..(q - 1) : IsSpace(text[r])
                    /\ \E kw \in CurrencyNames : MatchAt(text, q, kw)

\* /\d{4}|\b(january|...)\b/ || /next (week|...)/ || /in \d+ (days|weeks|months)/
\* || /\b(soon|later|planning)\b/
HasDates(text) ==
    LET NextSpace == <<"n","e","x","t"," ">>
        InSpace == <<"i","n"," ">>
    IN
        \/ \E i \in 1..(Len(text) - 3) : \A j \in 0..3 : IsDigit(text[i + j])
        \/ HasWholeWord(text, MonthNames)
        \/ \E i \in 1..Len(text) :
              /\ MatchAt(text, i, NextSpace)
              /\ \E kw \in NextPeriods : MatchAt(text, i + Len(NextSpace), kw)
        \/ \E i \in 1..Len(text) :
              /\ MatchAt(text, i, InSpace)
              /\ \E q \in (i + Len(InSpace) + 1)..Len(text) :
                    /\ \A r \in (i + Len(InSpace))..(q - 1) : IsDigit(text[r])
                    /\ text[q] = " "
                    /\ \E kw \in InUnits : MatchAt(text, q + 1, kw)
        \/ HasWholeWord(text, Hedges)

(***************************************************************************)
(* Messages                                                                *)
(***************************************************************************)
UttTrip == <<"I"," ","w","a","n","t"," ","t","o"," ","v","i","s","i","t"," ","J","a","p","a","n"," ","i","n"," ","M","a","y">>
UttBeach == <<"B","e","a","c","h">>
UttEs == <<"e","s">>
UttMoney == <<"$","3","0","0","0">>
\* Array.prototype.filter
RECURSIVE SelectMessages(_, _)
SelectMessages(msgs, keep) ==
    IF msgs = <<>> THEN <<>>
    ELSE IF Head(msgs).role \in keep
         THEN <<Head(msgs)>> \o SelectMessages(Tail(msgs), keep)
         ELSE SelectMessages(Tail(msgs), keep)

\* faulty variant: the contents are glued together without the separator
RECURSIVE JoinNoSeparator(_, _)
JoinNoSeparator(strs, sep) ==
    IF strs = <<>> THEN <<>>
    ELSE strs[1] \o JoinNoSeparator(Tail(strs), sep)

\* Array.prototype.join
RECURSIVE Join(_, _)
Join(strs, sep) ==
    IF strs = <<>> THEN <<>>
    ELSE IF Len(strs) = 1 THEN strs[1]
    ELSE strs[1] \o sep \o Join(Tail(strs), sep)

\* faulty variant: system messages are not filtered out of the corpus
ConversationTextUnfiltered(msgs) ==
    LET contents == [i \in 1..Len(msgs) |-> msgs[i].content]
    IN  ToLowerCase(Join(contents, <<" ">>))

\* messages.filter(user or assistant).map(content).join(' ').toLowerCase()
ConversationText(msgs) ==
    LET kept     == SelectMessages(msgs, {"user", "assistant"})
        contents == [i \in 1..Len(kept) |-> kept[i].content]
    IN  ToLowerCase(Join(contents, <<" ">>))

\* faulty variant: the decision rule demands a budget and ignores dates
shouldGenerateBudgetOnly(msgs) ==
    LET conversationText == ConversationText(msgs)
        hasDestination   == HasDestination(conversationText)
        hasBudget        == HasBudget(conversationText)
        hasDates         == HasDates(conversationText)
        missingInfo      ==
            (IF ~hasDestination THEN <<"destination">> ELSE <<>>)
            \o (IF ~hasBudget THEN <<"budget">> ELSE <<>>)
            \o (IF ~hasDates THEN <<"dates">> ELSE <<>>)
    IN  [done           |-> TRUE,
         shouldGenerate |-> hasDestination /\ hasBudget,
         missingInfo    |-> missingInfo]

\* faulty variant: the missing list is only filled in while still gathering
shouldGenerateMissingWhenGathering(msgs) ==
    LET conversationText == ConversationText(msgs)
        hasDestination   == HasDestination(conversationText)
        hasBudget        == HasBudget(conversationText)
        hasDates         == HasDates(conversationText)
        shouldGenerate   == hasDestination /\ (hasBudget \/ hasDates)
        missingInfo      ==
            IF shouldGenerate THEN <<>>
            ELSE (IF ~hasDestination THEN <<"destination">> ELSE <<>>)
                 \o (IF ~hasBudget THEN <<"budget">> ELSE <<>>)
                 \o (IF ~hasDates THEN <<"dates">> ELSE <<>>)
    IN  [done           |-> TRUE,
         shouldGenerate |-> shouldGenerate,
         missingInfo    |-> missingInfo]

shouldGenerateRecommendations(msgs) ==
    LET conversationText == ConversationText(msgs)
        hasDestination   == HasDestination(conversationText)
        hasBudget        == HasBudget(conversationText)
        hasDates         == HasDates(conversationText)
        missingInfo      ==
            (IF ~hasDestination THEN <<"destination">> ELSE <<>>)
            \o (IF ~hasBudget THEN <<"budget">> ELSE <<>>)
            \o (IF ~hasDates THEN <<"dates">> ELSE <<>>)
    IN  [done           |-> TRUE,
         shouldGenerate |-> hasDestination /\ (hasBudget \/ hasDates),
         missingInfo    |-> missingInfo]

NotAnalyzed == [done |-> FALSE, shouldGenerate |-> FALSE, missingInfo |-> <<>>]

(***************************************************************************)
(* JSON values and JSON.parse                                              *)
(*                                                                         *)
(* A text handed to JSON.parse is a sequence of lexical tokens: the        *)
(* punctuation of JSON, string and number literals, null, white space,     *)
(* and the bare words and code fences of surrounding prose.  A value is a  *)
(* record of one shape for every type: t is the type, s and n the payload  *)
(* of a string or number, kids the elements of an array or the member      *)
(* values of an object, keys the member names of an object.                *)
(***************************************************************************)
Tok(k) == [k |-> k, s |-> "", n |-> 0]

TokStr(s) == [k |-> "str", s |-> s, n |-> 0]

TokWord(s) == [k |-> "word", s |-> s, n |-> 0]

Undefined == [t |-> "undefined", s |-> "", n |-> 0, kids |-> <<>>, keys |-> <<>>]

Null == [t |-> "null", s |-> "", n |-> 0, kids |-> <<>>, keys |-> <<>>]

Str(s) == [t |-> "str", s |-> s, n |-> 0, kids |-> <<>>, keys |-> <<>>]

Num(n) == [t |-> "num", s |-> "", n |-> n, kids |-> <<>>, keys |-> <<>>]

Arr(items) == [t |-> "arr", s |-> "", n |-> 0, kids |-> items, keys |-> <<>>]

Obj(keys, kids) == [t |-> "obj", s |-> "", n |-> 0, kids |-> kids, keys |-> keys]

\* obj[key] = val: a repeated member name keeps its place and takes the later value
PutMember(keys, kids, key, val) ==
    IF \E i \in 1..Len(keys) : keys[i] = key
    THEN [keys |-> keys,
          kids |-> [i \in 1..Len(kids) |-> IF keys[i] = key THEN val ELSE kids[i]]]
    ELSE [keys |-> Append(keys, key), kids |-> Append(kids, val)]

ParseFailure == [ok |-> FALSE, val |-> Undefined, next |-> 0]

RECURSIVE ParseValue(_, _)
RECURSIVE ParseElements(_, _, _)
RECURSIVE ParseMembers(_, _, _, _)

\* one JSON value starting at token i of ts (white space already dropped)
ParseValue(ts, i) ==
    IF i > Len(ts) THEN ParseFailure
    ELSE CASE ts[i].k = "str"  -> [ok |-> TRUE, val |-> Str(ts[i].s), next |-> i + 1]
           [] ts[i].k = "num"  -> [ok |-> TRUE, val |-> Num(ts[i].n), next |-> i + 1]
           [] ts[i].k = "null" -> [ok |-> TRUE, val |-> Null, next |-> i + 1]
           [] ts[i].k = "["    ->
                IF i + 1 <= Len(ts) /\ ts[i + 1].k = "]"
                THEN [ok |-> TRUE, val |-> Arr(<<>>), next |-> i + 2]
                ELSE ParseElements(ts, i + 1, <<>>)
           [] ts[i].k = "{"    ->
                IF i + 1 <= Len(ts) /\ ts[i + 1].k = "}"
                THEN [ok |-> TRUE, val |-> Obj(<<>>, <<>>), next |-> i + 2]
                ELSE ParseMembers(ts, i + 1, <<>>, <<>>)
           [] OTHER -> ParseFailure

\* the elements of an array, the opening bracket consumed, items read so far
ParseElements(ts, i, items) ==
    LET r == ParseValue(ts, i)
    IN  IF ~r.ok \/ r.next > Len(ts) THEN ParseFailure
        ELSE IF ts[r.next].k = ","
             THEN ParseElements(ts, r.next + 1, Append(items, r.val))
        ELSE IF ts[r.next].k = "]"
             THEN [ok |-> TRUE, val |-> Arr(Append(items, r.val)), next |-> r.next + 1]
        ELSE ParseFailure

\* the members of an object, the opening brace consumed
ParseMembers(ts, i, keys, kids) ==
    IF i + 1 > Len(ts) \/ ts[i].k # "str" \/ ts[i + 1].k # ":" THEN ParseFailure
    ELSE LET r == ParseValue(ts, i + 2)
         IN  IF ~r.ok \/ r.next > Len(ts) THEN ParseFailure
             ELSE LET put == PutMember(keys, kids, ts[i].s, r.val)
                  IN  IF ts[r.next].k = ","
                      THEN ParseMembers(ts, r.next + 1, put.keys, put.kids)
                      ELSE IF ts[r.next].k = "}"
                           THEN [ok |-> TRUE, val |-> Obj(put.keys, put.kids),
                                 next |-> r.next + 1]
                      ELSE ParseFailure

\* faulty variant: text after the first value is ignored
JSONParseLenient(text) ==
    LET ts == SelectSeq(text, LAMBDA tk : tk.k # "ws")
        r  == ParseValue(ts, 1)
    IN  IF r.ok
        THEN [ok |-> TRUE, val |-> r.val]
        ELSE [ok |-> FALSE, val |-> Undefined]

\* JSON.parse: one value, white space allowed around tokens, nothing after it;
\* ok = FALSE stands for the SyntaxError
JSONParse(text) ==
    LET ts == SelectSeq(text, LAMBDA tk : tk.k # "ws")
        r  == ParseValue(ts, 1)
    IN  IF r.ok /\ r.next = Len(ts) + 1
        THEN [ok |-> TRUE, val |-> r.val]
        ELSE [ok |-> FALSE, val |-> Undefined]

\* property access v.key on a non-null value
Get(v, key) ==
    IF v.t = "obj" /\ \E i \in 1..Len(v.keys) : v.keys[i] = key
    THEN v.kids[CHOOSE i \in 1..Len(v.keys) : v.keys[i] = key]
    ELSE Undefined

\* ToBoolean
Truthy(v) ==
    CASE v.t = "undefined" -> FALSE
      [] v.t = "null"      -> FALSE
      [] v.t = "str"       -> v.s # ""
      [] v.t = "num"       -> v.n # 0
      [] OTHER             -> TRUE

\* Array.isArray
IsArray(v) == v.t = "arr"

\* reading a property of v throws a TypeError
Nullish(v) == v.t \in {"null", "undefined"}

(***************************************************************************)
(* validateRecommendationResponse                                          *)
(***************************************************************************)
MaxReturnedPlans == 3

NotValidated ==
    [done |-> FALSE, ok |-> FALSE, name |-> "", message |-> "", plan |-> 0,
     value |-> Undefined]

Returned(value) ==
    [done |-> TRUE, ok |-> TRUE, name |-> "", message |-> "", plan |-> 0,
     value |-> value]

Thrown(name, message, plan) ==
    [done |-> TRUE, ok |-> FALSE, name |-> name, message |-> message, plan |-> plan,
     value |-> Undefined]

\* the body of the forEach callback: the message of the first check that
\* throws for this plan, "" when the plan passes
PlanViolation(plan) ==
    IF Nullish(plan) THEN "Cannot read properties of null"
    ELSE LET duration   == Get(plan, "duration")
             budget     == Get(plan, "budget")
             highlights == Get(plan, "highlights")
             activities == Get(plan, "activities")
         IN  IF ~Truthy(Get(plan, "destination")) \/ ~Truthy(Get(plan, "country"))
             THEN "missing destination or country"
             ELSE IF \/ ~Truthy(duration)
                     \/ ~Truthy(Get(duration, "startDate"))
                     \/ ~Truthy(Get(duration, "endDate"))
             THEN "missing duration information"
             ELSE IF ~Truthy(budget) \/ Get(budget, "estimated").t # "num"
             THEN "missing budget information"
             ELSE IF ~IsArray(highlights) \/ Len(highlights.kids) = 0
             THEN "missing highlights"
             ELSE IF ~IsArray(activities) \/ Len(activities.kids) = 0
             THEN "missing activities"
             ELSE ""

\* faulty variant: the truncation keeps the last three plans
SlicePlansLast(plans) ==
    SubSeq(plans,
           IF Len(plans) > MaxReturnedPlans THEN Len(plans) - MaxReturnedPlans + 1 ELSE 1,
           Len(plans))

\* faulty variant: the truncation keeps two plans
SlicePlansTwo(plans) ==
    SubSeq(plans, 1, IF Len(plans) > 2 THEN 2 ELSE Len(plans))

\* parsed.plans.slice(0, 3)
SlicePlans(plans) ==
    SubSeq(plans, 1, IF Len(plans) > MaxReturnedPlans THEN MaxReturnedPlans ELSE Len(plans))

\* faulty variant: only the type of a present summary is checked
SummaryInvalidIfPresent(parsed) ==
    Truthy(Get(parsed, "summary")) /\ Get(parsed, "summary").t # "str"

\* the checks on the top-level summary field
SummaryInvalid(parsed) ==
    ~Truthy(Get(parsed, "summary")) \/ Get(parsed, "summary").t # "str"

validateRecommendationResponse(jsonString) ==
    LET parse == JSONParse(jsonString)
    IN  IF ~parse.ok THEN Thrown("Error", "Invalid JSON response from AI", 0)
        ELSE LET parsed == parse.val
             IN  IF Nullish(parsed) THEN Thrown("TypeError", "Cannot read properties of null", 0)
                 ELSE IF SummaryInvalid(parsed)
                 THEN Thrown("Error", "Missing or invalid summary field", 0)
                 ELSE IF ~IsArray(Get(parsed, "plans")) \/ Len(Get(parsed, "plans").kids) = 0
                 THEN Thrown("Error", "Plans must be a non-empty array", 0)
                 ELSE LET plans == SlicePlans(Get(parsed, "plans").kids)
                          bad   == {i \in 1..Len(plans) : PlanViolation(plans[i]) # ""}
                      IN  IF bad # {}
                          THEN LET first == CHOOSE i \in bad : \A j \in bad : i <= j
                               IN  Thrown(IF Nullish(plans[first]) THEN "TypeError" ELSE "Error",
                                          PlanViolation(plans[first]), first)
                          ELSE Returned(
                                 Obj(parsed.keys,
                                     [i \in 1..Len(parsed.kids) |->
                                        IF parsed.keys[i] = "plans" THEN Arr(plans)
                                        ELSE parsed.kids[i]]))

(***************************************************************************)
(* The completions of the language model                                   *)
(*                                                                         *)
(* A completion is described by the document the model means and by the    *)
(* way it writes it down; Render turns the description into the text the   *)
(* validator receives.                                                     *)
(***************************************************************************)
MaxPlans == 4

MaxClock == 2

\* the readings of Date.now() a voice session is followed for
MaxNow == 3

\* the clicks on the map a visit of the map view is followed for
MaxClicks == 2

\* the milliseconds a visit of the map view is followed for
MaxElapsed == 30000

PlanDefects ==
    {"noId", "noDestination", "noCountry", "noEndDate", "budgetText",
     "noHighlights", "noActivities", "nullPlan"}

SummaryKinds == {"text", "absent", "empty", "number"}

Wraps ==
    {"bare", "padded", "prose", "fenced", "truncated", "extraOpen", "extraClose",
     "proseOnly", "empty"}

\* the members of an object whose value is present
Members(pairs) ==
    LET present == SelectSeq(pairs, LAMBDA p : p[2].t # "undefined")
    IN  Obj([i \in 1..Len(present) |-> present[i][1]],
            [i \in 1..Len(present) |-> present[i][2]])

\* the i-th plan of a document, in the shape the recommendation prompt asks for
PlanDoc(i, defect) ==
    IF defect = "nullPlan" THEN Null
    ELSE Members(<<
           <<"id", IF defect = "noId" THEN Undefined ELSE Str("plan-" \o ToString(i))>>,
           <<"destination",
             IF defect = "noDestination" THEN Undefined ELSE Str("place-" \o ToString(i))>>,
           <<"country", IF defect = "noCountry" THEN Undefined ELSE Str("Japan")>>,
           <<"duration",
             Members(<< <<"startDate", Str("2026-05-01")>>,
                        <<"endDate",
                          IF defect = "noEndDate" THEN Undefined ELSE Str("2026-05-01")>>,
                        <<"nights", Num(0)>> >>)>>,
           <<"budget",
             Members(<< <<"estimated",
                          IF defect = "budgetText" THEN Str("150") ELSE Num(100 + i)>>,
                        <<"currency", Str("USD")>> >>)>>,
           <<"highlights",
             IF defect = "noHighlights" THEN Arr(<<>>) ELSE Arr(<<Str("view")>>)>>,
           <<"activities",
             IF defect = "noActivities" THEN Undefined ELSE Arr(<<Str("hike")>>)>> >>)

\* the plans of a described document: n plans, the one at position at
\* (if any) carrying the defect
PlanDocs(d) == [i \in 1..d.n |-> PlanDoc(i, IF i = d.at THEN d.defect ELSE "none")]

SummaryDoc(kind) ==
    CASE kind = "text"   -> Str("Three day trips")
      [] kind = "empty"  -> Str("")
      [] kind = "number" -> Num(7)
      [] OTHER           -> Undefined

\* the document a description stands for
Document(d) ==
    CASE d.top = "null"  -> Null
      [] d.top = "text"  -> Str("Sorry")
      [] d.top = "array" -> Arr(PlanDocs(d))
      [] OTHER ->
           Members(<< <<"summary", SummaryDoc(d.summary)>>,
                      <<"plans",
                        CASE d.plans = "array" -> Arr(PlanDocs(d))
                          [] d.plans = "text"  -> Str("none")
                          [] OTHER             -> Undefined>>,
                      <<"metadata",
                        Members(<< <<"generatedAt", Str("2026-05-01T00:00:00.000Z")>> >>)>> >>)

RECURSIVE Stringify(_)
RECURSIVE StringifyElements(_, _)
RECURSIVE StringifyMembers(_, _, _)

\* the text of a JSON value, without white space
Stringify(v) ==
    CASE v.t = "str"  -> <<TokStr(v.s)>>
      [] v.t = "num"  -> <<[k |-> "num", s |-> "", n |-> v.n]>>
      [] v.t = "arr"  -> <<Tok("[")>> \o StringifyElements(v.kids, 1) \o <<Tok("]")>>
      [] v.t = "obj"  -> <<Tok("{")>> \o StringifyMembers(v.keys, v.kids, 1) \o <<Tok("}")>>
      [] OTHER        -> <<Tok("null")>>

StringifyElements(kids, i) ==
    IF i > Len(kids) THEN <<>>
    ELSE (IF i > 1 THEN <<Tok(",")>> ELSE <<>>)
         \o Stringify(kids[i]) \o StringifyElements(kids, i + 1)

StringifyMembers(keys, kids, i) ==
    IF i > Len(kids) THEN <<>>
    ELSE (IF i > 1 THEN <<Tok(",")>> ELSE <<>>)
         \o <<TokStr(keys[i]), Tok(":")>> \o Stringify(kids[i])
         \o StringifyMembers(keys, kids, i + 1)

Refusal ==
    <<TokWord("Sorry,"), Tok("ws"), TokWord("I"), Tok("ws"), TokWord("cannot"), Tok("ws"),
      TokWord("help"), Tok("ws"), TokWord("with"), Tok("ws"), TokWord("that.")>>

\* the completion text of a description
Render(d) ==
    LET LeadingSentence ==
            <<TokWord("Here"), Tok("ws"), TokWord("are"), Tok("ws"), TokWord("your"), Tok("ws"),
              TokWord("plans."), Tok("ws")>>
        TrailingSentence ==
            <<Tok("ws"), TokWord("Enjoy"), Tok("ws"), TokWord("your"), Tok("ws"), TokWord("trip.")>>
    IN
        LET json == Stringify(Document(d))
        IN  CASE d.wrap = "padded"     -> <<Tok("ws")>> \o json \o <<Tok("ws")>>
              [] d.wrap = "prose"      -> LeadingSentence \o json \o TrailingSentence
              [] d.wrap = "fenced"     ->
                   <<Tok("fence"), TokWord("json"), Tok("ws")>> \o json
                   \o <<Tok("ws"), Tok("fence")>>
              [] d.wrap = "truncated"  -> SubSeq(json, 1, Len(json) - 1)
              [] d.wrap = "extraOpen"  -> <<Tok("{")>> \o json
              [] d.wrap = "extraClose" -> json \o <<Tok("}")>>
              [] d.wrap = "proseOnly"  -> Refusal
              [] d.wrap = "empty"      -> <<>>
              [] OTHER                 -> json

Description(top, summary, plans, n, at, defect, wrap) ==
    [top |-> top, summary |-> summary, plans |-> plans, n |-> n, at |-> at,
     defect |-> defect, wrap |-> wrap]

\* objects with a plans array: a summary of any kind around intact plans, or
\* a text summary around plans of which one is defective
ArrayDescriptions ==
    {Description("object", sk, "array", n, 0, "none", w) :
        sk \in SummaryKinds, n \in 0..MaxPlans, w \in Wraps \ {"proseOnly", "empty"}}
    \cup
    UNION {{Description("object", "text", "array", n, at, df, w) :
               at \in 1..n, df \in PlanDefects, w \in Wraps \ {"proseOnly", "empty"}} :
           n \in 1..MaxPlans}

\* documents of another shape, and the refusal that carries no document
OtherDescriptions ==
    {Description("object", sk, pk, 0, 0, "none", "bare") :
        sk \in SummaryKinds, pk \in {"absent", "text"}}
    \cup {Description(top, "absent", "absent", 0, 0, "none", w) :
             top \in {"null", "text"}, w \in {"bare", "truncated", "extraClose"}}
    \cup {Description("array", "absent", "array", 2, 0, "none", "bare"),
          Description("text", "absent", "absent", 0, 0, "none", "proseOnly"),
          Description("text", "absent", "absent", 0, 0, "none", "empty")}

Descriptions == ArrayDescriptions \cup OtherDescriptions

NoDescription == Description("none", "absent", "absent", 0, 0, "none", "bare")

(***************************************************************************)
(* POST /api/assistant: one conversation turn                              *)
(***************************************************************************)
\* Array.prototype.join on a list of strings, the result kept as its pieces
RECURSIVE JoinPieces(_, _)
JoinPieces(strs, sep) ==
    IF strs = <<>> THEN <<>>
    ELSE IF Len(strs) = 1 THEN <<strs[1]>>
    ELSE <<strs[1], sep>> \o JoinPieces(Tail(strs), sep)

\* the system prompts, reduced to the phase line and the interpolated list
getInformationGatheringPrompt(missingInfo) ==
    <<"CURRENT PHASE: Information Gathering", "MISSING INFORMATION: ">>
    \o JoinPieces(missingInfo, ", ")

getRecommendationPrompt ==
    <<"CURRENT PHASE: Recommendation Generation",
      "Respond with ONLY the JSON object, no additional text">>

(***************************************************************************)
(* The gateway client: what its fetch meets, and the error it throws       *)
(***************************************************************************)
\* no fetch has been made
NoUpstream ==
    [kind |-> "none", status |-> 0, readable |-> FALSE, message |-> <<>>,
     fetches |-> 0, request |-> [messages |-> <<>>, max_tokens |-> 0, response_format |-> ""]]

\* the ok answer that carries a completion
Completed == [kind |-> "http", status |-> 200, readable |-> TRUE, message |-> <<>>]

\* the rejected fetch, the answers that are not ok (with a body that is JSON
\* or is not), and the ok answer whose body is not JSON
UpstreamFailures ==
    LET \* the status codes of the answers that are not ok
        UpstreamStatuses == {400, 401, 403, 429, 500, 503, 504}
        \* error.message of the body of an answer that is not ok; <<>> when the body
        \* has none
        UpstreamMessages ==
            {<<>>,
             <<"P","r","o","v","i","d","e","r"," ","r","e","t","u","r","n","e","d"," ",
              "e","r","r","o","r">>,
             <<"A","P","I"," ","k","e","y"," ","d","i","s","a","b","l","e","d">>}
    IN
        {[kind |-> "network", status |-> 0, readable |-> FALSE, message |-> <<>>]}
        \cup {[kind |-> "http", status |-> s, readable |-> FALSE, message |-> <<>>] :
                s \in UpstreamStatuses \cup {200}}
        \cup {[kind |-> "http", status |-> s, readable |-> TRUE, message |-> m] :
                s \in UpstreamStatuses, m \in UpstreamMessages}

\* the message of the error handleErrorResponse throws for an answer that is
\* not ok: a body that is not JSON is reported before the status is looked at
handleErrorResponse(answer) ==
    LET \* the messages of the errors the gateway client throws
        InvalidKeyError ==
            <<"I","n","v","a","l","i","d"," ","O","p","e","n","R","o","u","t","e",
              "r"," ","A","P","I"," ","k","e","y","."," ","P","l","e","a","s","e",
              " ","c","h","e","c","k"," ","y","o","u","r"," ","O","P","E","N","R",
              "O","U","T","E","R","_","A","P","I","_","K","E","Y"," ","e","n","v",
              "i","r","o","n","m","e","n","t"," ","v","a","r","i","a","b","l","e",
              ".">>
        RateLimitError ==
            <<"R","a","t","e"," ","l","i","m","i","t"," ","e","x","c","e","e","d",
              "e","d","."," ","P","l","e","a","s","e"," ","t","r","y"," ","a","g",
              "a","i","n"," ","l","a","t","e","r",".">>
        \* response.status.toString()
        StatusDigits(status) ==
            CASE status = 200 -> <<"2","0","0">>
              [] status = 400 -> <<"4","0","0">>
              [] status = 401 -> <<"4","0","1">>
              [] status = 403 -> <<"4","0","3">>
              [] status = 429 -> <<"4","2","9">>
              [] status = 500 -> <<"5","0","0">>
              [] status = 503 -> <<"5","0","3">>
              [] status = 504 -> <<"5","0","4">>
        \* response.statusText
        StatusText(status) ==
            CASE status = 200 -> <<"O","K">>
              [] status = 400 -> <<"B","a","d"," ","R","e","q","u","e","s","t">>
              [] status = 401 -> <<"U","n","a","u","t","h","o","r","i","z","e","d">>
              [] status = 403 -> <<"F","o","r","b","i","d","d","e","n">>
              [] status = 429 -> <<"T","o","o"," ","M","a","n","y"," ","R","e","q","u","e","s","t","s">>
              [] status = 500 -> <<"I","n","t","e","r","n","a","l"," ","S","e","r","v","e","r"," ","E","r","r","o","r">>
              [] status = 503 -> <<"S","e","r","v","i","c","e"," ","U","n","a","v","a","i","l","a","b","l","e">>
              [] status = 504 -> <<"G","a","t","e","w","a","y"," ","T","i","m","e","o","u","t">>
    IN
        LET UnknownError == <<"U","n","k","n","o","w","n"," ","e","r","r","o",
                                "r">>
            ApiErrorPrefix ==
                <<"O","p","e","n","R","o","u","t","e","r"," ","A","P","I"," ","e",
                  "r","r","o","r",":"," ">>
            BadRequestPrefix == <<"B","a","d"," ","r","e","q","u","e","s","t",":",
                                  " ">>
            ServiceErrorPrefix ==
                <<"O","p","e","n","R","o","u","t","e","r"," ","s","e","r","v","i",
                  "c","e"," ","e","r","r","o","r",":"," ">>
            ServiceErrorSuffix ==
                <<"."," ","P","l","e","a","s","e"," ","t","r","y"," ","a","g","a",
                  "i","n",".">>
            ApiErrorOpen ==
                <<"O","p","e","n","R","o","u","t","e","r"," ","A","P","I"," ","e",
                  "r","r","o","r"," ","(">>
            ApiErrorClose == <<")",":"," ">>
            errorMessage == IF answer.message = <<>> THEN UnknownError ELSE answer.message
        IN  IF ~answer.readable
            THEN ApiErrorPrefix \o StatusDigits(answer.status) \o <<" ">>
                 \o StatusText(answer.status)
            ELSE CASE answer.status = 401 -> InvalidKeyError
                   [] answer.status = 429 -> RateLimitError
                   [] answer.status = 400 -> BadRequestPrefix \o errorMessage
                   [] answer.status \in {500, 502, 503} ->
                         ServiceErrorPrefix \o errorMessage \o ServiceErrorSuffix
                   [] OTHER -> ApiErrorOpen \o StatusDigits(answer.status) \o ApiErrorClose
                               \o errorMessage

\* the message of the error chat rejects with
ChatError(answer) ==
    LET FetchFailedError ==
            <<"f","e","t","c","h"," ","f","a","i","l","e","d">>
    IN
        LET BodySyntaxError ==
                <<"U","n","e","x","p","e","c","t","e","d"," ","t","o","k","e","n",
                  " ","<"," ","i","n"," ","J","S","O","N"," ","a","t"," ","p","o",
                  "s","i","t","i","o","n"," ","0">>
        IN  IF answer.kind = "network" THEN FetchFailedError
            ELSE IF answer.status = 200 THEN BodySyntaxError
            ELSE handleErrorResponse(answer)

GatewayErrors == {ChatError(answer) : answer \in UpstreamFailures}

\* faulty variant: the messages are passed on with all their fields
formatMessagesWhole(msgs) == msgs

\* messages.map(({ role, content }) => ({ role, content }))
formatMessages(msgs) ==
    [i \in 1..Len(msgs) |-> [role |-> msgs[i].role, content |-> msgs[i].content]]

\* requestBody, without the model and the temperature
requestBody(args) ==
    [messages |-> formatMessages(args.messages),
     max_tokens |-> args.maxTokens,
     response_format |-> IF args.responseFormat = "json" THEN "json_object" ELSE ""]

\* faulty variant: a second fetch follows the first
ExchangeRepeated(previous, args, answer) ==
    [kind |-> answer.kind, status |-> answer.status, readable |-> answer.readable,
     message |-> answer.message, fetches |-> previous.fetches + 2,
     request |-> requestBody(args)]

\* the one fetch of chat: the request body it posts and the answer it meets
Exchange(previous, args, answer) ==
    [kind |-> answer.kind, status |-> answer.status, readable |-> answer.readable,
     message |-> answer.message, fetches |-> previous.fetches + 1,
     request |-> requestBody(args)]

\* String.prototype.includes
Includes(text, needle) == \E i \in 1..Len(text) : MatchAt(text, i, needle)

NoResponse ==
    [kind |-> "none", status |-> 0, error |-> "", code |-> "", retryable |-> FALSE,
     detail |-> "", text |-> <<>>, travelPlans |-> Undefined, summary |-> Undefined,
     fields |-> {}]

\* NextResponse.json of an error object
Failure(status, error, code, retryable, detail) ==
    [kind |-> "failure", status |-> status, error |-> error, code |-> code,
     retryable |-> retryable, detail |-> detail, text |-> <<>>,
     travelPlans |-> Undefined, summary |-> Undefined,
     fields |-> {"error", "message", "code", "retryable"}]

\* NextResponse.json({ message })
MessageResponse(text) ==
    [kind |-> "message", status |-> 200, error |-> "", code |-> "", retryable |-> FALSE,
     detail |-> "", text |-> text, travelPlans |-> Undefined, summary |-> Undefined,
     fields |-> {"message"}]

\* NextResponse.json({ travelPlans, summary })
PlansResponse(plans, summary) ==
    [kind |-> "plans", status |-> 200, error |-> "", code |-> "", retryable |-> FALSE,
     detail |-> "", text |-> <<>>, travelPlans |-> plans, summary |-> summary,
     fields |-> {"travelPlans", "summary"}]

\* the catch block of POST: the response chosen from the text of the error
ErrorResponse(message) ==
    IF Includes(message, <<"A","P","I"," ","k","e","y">>)
    THEN Failure(500, "Configuration error", "CONFIG_ERROR", FALSE,
                 "The service is not properly configured. Please contact support.")
    ELSE IF Includes(message, <<"R","a","t","e"," ","l","i","m","i","t">>)
    THEN Failure(429, "Rate limit exceeded", "RATE_LIMIT", TRUE,
                 "Too many requests. Please wait a moment and try again.")
    ELSE IF \/ Includes(message, <<"n","e","t","w","o","r","k">>)
            \/ Includes(message, <<"f","e","t","c","h">>)
    THEN Failure(503, "Network error", "NETWORK_ERROR", TRUE,
                 "Unable to connect to the AI service. Please check your connection and try again.")
    ELSE Failure(500, "Internal server error", "INTERNAL_ERROR", TRUE,
                 "An unexpected error occurred. Please try again.")

\* faulty variant: a completion that fails validation is passed on as the
\* assistant's message
ValidationResponseFallback(recommendations, content) ==
    IF recommendations.ok
    THEN PlansResponse(Get(recommendations.value, "plans"),
                       Get(recommendations.value, "summary"))
    ELSE MessageResponse(content)

\* the response of the recommendation phase: the validated plans and summary,
\* or the validation failure
ValidationResponse(recommendations, content) ==
    IF recommendations.ok
    THEN PlansResponse(Get(recommendations.value, "plans"),
                       Get(recommendations.value, "summary"))
    ELSE Failure(500, "Invalid response format", "VALIDATION_ERROR", TRUE,
                 recommendations.message)

\* the message a failed request.json() carries
UnreadableBodyError ==
    <<"U","n","e","x","p","e","c","t","e","d"," ","e","n","d"," ","o","f"," ",
      "J","S","O","N"," ","i","n","p","u","t">>

\* faulty variant: only the role of a message is checked
MessageInvalidRoleOnly(msg) == msg.role = ""

\* !msg.role || !msg.content || typeof msg.content !== 'string'
MessageInvalid(msg) == msg.role = "" \/ msg.content = <<>> \/ ~msg.textual

Entry(role, content) == [role |-> role, content |-> content, timestamp |-> 1, textual |-> TRUE]

\* a content that is a number, not text
NumberEntry(role) == [role |-> role, content |-> <<"4","2">>, timestamp |-> 1, textual |-> FALSE]

\* the paths of the two endpoints
AssistantPath == "/api/assistant"

MapPath == "/api/map-recommendations"

\* the request bodies of the modelled turns
TurnBodies ==
    {[path |-> AssistantPath, readable |-> FALSE, shape |-> "absent", messages |-> <<>>],
     [path |-> AssistantPath, readable |-> TRUE, shape |-> "absent", messages |-> <<>>],
     [path |-> AssistantPath, readable |-> TRUE, shape |-> "text", messages |-> <<>>]}
    \cup
    {[path |-> AssistantPath, readable |-> TRUE, shape |-> "array", messages |-> log] :
        log \in {<<>>,
                 <<Entry("user", UttBeach)>>,
                 <<Entry("user", UttTrip)>>,
                 <<Entry("system", UttTrip)>>,
                 <<Entry("user", UttBeach), Entry("assistant", UttEs), Entry("user", UttMoney)>>,
                 <<Entry("user", UttTrip), Entry("", UttBeach)>>,
                 <<Entry("user", <<>>)>>,
                 <<NumberEntry("user")>>}}

\* the completions of the modelled turns
TurnDescriptions ==
    {d \in Descriptions : d.at = 0 \/ (d.at = 1 /\ d.defect \in {"noDestination", "noId"})}

NoBody == [path |-> "", readable |-> FALSE, shape |-> "none", messages |-> <<>>]

NoReply == [kind |-> "none", message |-> <<>>]

NoSent == [messages |-> <<>>, maxTokens |-> 0, responseFormat |-> ""]

\* callAssistantWithRetry before its first attempt
NoClient ==
    [attempt |-> 0, requests |-> 0, delays |-> <<>>, lastError |-> "", outcome |-> "none"]

\* the state of Home before a session: the initial values of useState, the
\* requests in flight with the log each one captured, the clock Date.now()
\* reads, and a record of what was submitted, received, retried and reset
NoHome ==
    [hasStarted |-> FALSE, mode |-> "", travelPlans |-> Null, summary |-> Null,
     error |-> <<>>, isLoading |-> FALSE, inFlight |-> <<>>, now |-> 1,
     submitted |-> <<>>, received |-> <<>>, retries |-> 0, reset |-> FALSE]

\* the state of MapView when it mounts: the initial values of useState, the
\* clicks whose requests are in flight, the clock Date.now() reads, and a
\* record of the clicks made, the clicks accepted, the requests issued and
\* the click that wrote what is displayed
NoMapView ==
    [clickedLocation |-> 0, locationName |-> "", isLoading |-> FALSE, error |-> <<>>,
     travelPlans |-> Null, summary |-> Null, isPanelOpen |-> FALSE, nearbyAttractions |-> 0,
     lastClickTime |-> 0, inFlight |-> <<>>, now |-> 0,
     clicks |-> 0, accepted |-> 0,
     requests |-> [geocoding |-> 0, attractions |-> 0, cities |-> 0, recommendations |-> 0],
     shown |-> [locationName |-> 0, travelPlans |-> 0]]

InitTurn ==
    /\ body \in TurnBodies
    /\ messages = body.messages
    /\ pc = "request"
    /\ analysis = NotAnalyzed
    /\ prior = NotAnalyzed
    /\ sent = NoSent
    /\ reply = NoReply
    /\ llm = NoDescription
    /\ raw = <<>>
    /\ validation = NotValidated
    /\ response = NoResponse
    /\ upstream = NoUpstream
    /\ client = NoClient
    /\ home = NoHome
    /\ mapView = NoMapView

\* POST up to the call of the gateway: the body is read and checked, the
\* phase decided and the message list for the model built
POSTCallGateway ==
    /\ body.path = AssistantPath
    /\ pc = "request"
    /\ IF ~body.readable
       THEN /\ response' = ErrorResponse(UnreadableBodyError)
            /\ pc' = "done"
            /\ UNCHANGED <<analysis, sent>>
       ELSE IF body.shape # "array"
       THEN /\ response' = Failure(400, "Invalid request", "INVALID_REQUEST", FALSE,
                                   "Messages array is required")
            /\ pc' = "done"
            /\ UNCHANGED <<analysis, sent>>
       ELSE IF \E i \in 1..Len(body.messages) : MessageInvalid(body.messages[i])
       THEN /\ response' = Failure(400, "Invalid request", "INVALID_MESSAGE", FALSE,
                                   "Each message must have role and content")
            /\ pc' = "done"
            /\ UNCHANGED <<analysis, sent>>
       ELSE LET result == shouldGenerateRecommendations(body.messages)
                systemPrompt ==
                    IF result.shouldGenerate THEN getRecommendationPrompt
                    ELSE getInformationGatheringPrompt(result.missingInfo)
            IN  /\ analysis' = result
                /\ sent' = [messages |-> <<Entry("system", systemPrompt)>> \o body.messages,
                            maxTokens |-> IF result.shouldGenerate THEN 2000 ELSE 300,
                            responseFormat |-> IF result.shouldGenerate THEN "json" ELSE "text"]
                /\ pc' = "awaiting"
                /\ UNCHANGED response
    /\ UNCHANGED <<messages, prior, body, reply, llm, raw, validation, upstream, client,
                   home, mapView>>

\* openRouterClient.chat resolves with a completion
GatewayReturns ==
    /\ body.path = AssistantPath
    /\ pc = "awaiting"
    /\ \E d \in TurnDescriptions :
          /\ llm' = d
          /\ raw' = Render(d)
    /\ upstream' = Exchange(upstream, sent, Completed)
    /\ reply' = [kind |-> "completion", message |-> <<>>]
    /\ pc' = "replied"
    /\ UNCHANGED <<messages, analysis, prior, body, sent, validation, response, client,
                   home, mapView>>

\* openRouterClient.chat rejects with an error
GatewayThrows ==
    /\ pc = "awaiting"
    /\ \E answer \in UpstreamFailures :
          /\ upstream' = Exchange(upstream, sent, answer)
          /\ reply' = [kind |-> "error", message |-> ChatError(answer)]
    /\ pc' = "replied"
    /\ UNCHANGED <<messages, analysis, prior, body, sent, llm, raw, validation, response,
                   client, home, mapView>>

\* POST after the call of the gateway: the response is built by phase
POSTRespond ==
    /\ body.path = AssistantPath
    /\ pc = "replied"
    /\ IF reply.kind = "error"
       THEN /\ response' = ErrorResponse(reply.message)
            /\ UNCHANGED validation
       ELSE IF analysis.shouldGenerate
       THEN LET recommendations == validateRecommendationResponse(raw)
            IN  /\ validation' = recommendations
                /\ response' = ValidationResponse(recommendations, raw)
       ELSE /\ response' = MessageResponse(raw)
            /\ UNCHANGED validation
    /\ pc' = "done"
    /\ UNCHANGED <<messages, analysis, prior, body, sent, reply, llm, raw, upstream, client,
                   home, mapView>>

NextTurn == POSTCallGateway \/ GatewayReturns \/ GatewayThrows \/ POSTRespond

SpecTurn == InitTurn /\ [][NextTurn]_vars

(***************************************************************************)
(* POST /api/map-recommendations: one geographic turn                      *)
(***************************************************************************)
\* the texts of the error member of the failures: the three fixed ones, and
\* the messages of the TypeErrors that reach the catch block
MapErrorText(reason) ==
    CASE reason = "coordinates" ->
           <<"I","n","v","a","l","i","d"," ","c","o","o","r","d","i","n","a",
             "t","e","s"," ","p","r","o","v","i","d","e","d">>
      [] reason = "parse" ->
           <<"F","a","i","l","e","d"," ","t","o"," ","g","e","n","e","r","a",
             "t","e"," ","v","a","l","i","d"," ","r","e","c","o","m","m","e",
             "n","d","a","t","i","o","n","s","."," ","P","l","e","a","s","e",
             " ","t","r","y"," ","a","g","a","i","n",".">>
      [] reason = "format" ->
           <<"I","n","v","a","l","i","d"," ","r","e","s","p","o","n","s","e",
             " ","f","o","r","m","a","t"," ","f","r","o","m"," ","A","I">>
      [] reason = "locationName" ->
           <<"C","a","n","n","o","t"," ","r","e","a","d"," ","p","r","o","p",
             "e","r","t","i","e","s"," ","o","f"," ","u","n","d","e","f","i",
             "n","e","d"," ","(","r","e","a","d","i","n","g"," ","'","t","o",
             "L","o","w","e","r","C","a","s","e","'",")">>
      [] reason = "plans" ->
           <<"C","a","n","n","o","t"," ","r","e","a","d"," ","p","r","o","p",
             "e","r","t","i","e","s"," ","o","f"," ","n","u","l","l"," ","(",
             "r","e","a","d","i","n","g"," ","'","p","l","a","n","s","'",")">>
      [] reason = "id" ->
           <<"C","a","n","n","o","t"," ","r","e","a","d"," ","p","r","o","p",
             "e","r","t","i","e","s"," ","o","f"," ","n","u","l","l"," ","(",
             "r","e","a","d","i","n","g"," ","'","i","d","'",")">>

\* NextResponse.json({ error }, { status })
MapFailure(status, error) ==
    [kind |-> "failure", status |-> status, error |-> error, code |-> "",
     retryable |-> FALSE, detail |-> "", text |-> <<>>,
     travelPlans |-> Undefined, summary |-> Undefined, fields |-> {"error"}]

\* the request bodies of the modelled geographic turns
MapBody(readable, coordinates, named, locationName, nearbyAttractions, nearbyCities) ==
    [path |-> MapPath, readable |-> readable, coordinates |-> coordinates,
     named |-> named,
     locationName |-> locationName, nearbyAttractions |-> nearbyAttractions,
     nearbyCities |-> nearbyCities]

MapBodies ==
    LET Kyoto == <<"K","y","o","t","o">>
        PacificOcean == <<"P","a","c","i","f","i","c"," ","O","c","e","a","n">>
    IN  {MapBody(FALSE, "absent", FALSE, <<>>, 0, 0),
         MapBody(TRUE, "absent", TRUE, Kyoto, 1, 1),
         MapBody(TRUE, "latText", TRUE, Kyoto, 1, 1),
         MapBody(TRUE, "lngAbsent", TRUE, Kyoto, 1, 1),
         MapBody(TRUE, "numbers", FALSE, <<>>, 1, 1),
         MapBody(TRUE, "numbers", TRUE, Kyoto, 1, 1),
         MapBody(TRUE, "numbers", TRUE, Kyoto, 0, 0),
         MapBody(TRUE, "numbers", TRUE, PacificOcean, 0, 1)}

MapSystemPrompt ==
    <<"create 2-3 compelling travel plan options",
      "You must respond with ONLY a valid JSON object">>

MapUserPrompt(b) ==
    LET isWater ==
            LET name == ToLowerCase(b.locationName)
            IN  \/ Includes(name, <<"o","c","e","a","n">>)
                \/ Includes(name, <<"s","e","a">>)
                \/ Includes(name, <<"a","t","l","a","n","t","i","c">>)
                \/ Includes(name, <<"p","a","c","i","f","i","c">>)
        isRemote == b.nearbyAttractions = 0 /\ b.nearbyCities = 0
    IN
        IF isWater
        THEN <<"The user clicked on a water location", "Nearby cities">>
        ELSE IF isRemote
        THEN <<"The user clicked on a remote location", "This is a remote area">>
        ELSE <<"The user clicked on this location", "NEARBY ATTRACTIONS (USE ONLY THESE)">>

\* String.prototype.trim on the tokens of a text
RECURSIVE Trim(_)
Trim(ts) ==
    IF ts = <<>> THEN <<>>
    ELSE IF ts[1].k = "ws" THEN Trim(Tail(ts))
    ELSE IF ts[Len(ts)].k = "ws" THEN Trim(SubSeq(ts, 1, Len(ts) - 1))
    ELSE ts

\* the first position from i on that is not white space
RECURSIVE SkipSpace(_, _)
SkipSpace(ts, i) ==
    IF i <= Len(ts) /\ ts[i].k = "ws" THEN SkipSpace(ts, i + 1) ELSE i

\* the closing braces after a that \s*``` follows
FencedClosers(ts, a) ==
    {b \in (a + 1)..Len(ts) :
        /\ ts[b].k = "}"
        /\ SkipSpace(ts, b + 1) <= Len(ts)
        /\ ts[SkipSpace(ts, b + 1)].k = "fence"}

\* where the group of the fenced pattern opens for a match starting at the
\* fence i; 0 when no match starts there
FencedOpener(ts, i) ==
    LET j == IF i + 1 <= Len(ts) /\ ts[i + 1] = TokWord("json") THEN i + 2 ELSE i + 1
        a == SkipSpace(ts, j)
    IN  IF ts[i].k = "fence" /\ a <= Len(ts) /\ ts[a].k = "{" /\ FencedClosers(ts, a) # {}
        THEN a ELSE 0

\* content.match(/```(?:json)?\s*(\{[\s\S]*\})\s*```/): the leftmost match,
\* its group taken as long as possible
FencedMatch(ts) ==
    LET starts == {i \in 1..Len(ts) : FencedOpener(ts, i) # 0}
    IN  IF starts = {} THEN [found |-> FALSE, group |-> <<>>]
        ELSE LET i == CHOOSE x \in starts : \A y \in starts : x <= y
                 a == FencedOpener(ts, i)
                 b == CHOOSE x \in FencedClosers(ts, a) :
                         \A y \in FencedClosers(ts, a) : y <= x
             IN  [found |-> TRUE, group |-> SubSeq(ts, a, b)]

\* content.match(/(\{[\s\S]*\})/): from the first opening brace to the last
\* closing one
BraceMatch(ts) ==
    LET opens  == {i \in 1..Len(ts) : ts[i].k = "{"}
        closes == {i \in 1..Len(ts) : ts[i].k = "}"}
    IN  IF opens = {} THEN [found |-> FALSE, group |-> <<>>]
        ELSE LET a == CHOOSE x \in opens : \A y \in opens : x <= y
                 after == {b \in closes : b > a}
             IN  IF after = {} THEN [found |-> FALSE, group |-> <<>>]
                 ELSE [found |-> TRUE,
                       group |-> SubSeq(ts, a, CHOOSE x \in after : \A y \in after : y <= x)]

\* the text handed to JSON.parse
ExtractJson(text) ==
    LET content == Trim(text)
    IN  IF FencedMatch(content).found THEN FencedMatch(content).group
        ELSE IF BraceMatch(content).found THEN BraceMatch(content).group
        ELSE content

\* the completions of the modelled geographic turns
MapDescriptions ==
    {d \in Descriptions : d.at = 0 \/ d.defect \in {"noId", "nullPlan"}}

\* ({ ...plan, id }) for every plan, index counted from 0
MapTravelPlans(plans, now) ==
    LET \* plan.id || `map-plan-${Date.now()}-${index}`
        MapPlanId(plan, index) ==
            IF Truthy(Get(plan, "id")) THEN Get(plan, "id")
            ELSE Str("map-plan-" \o ToString(now) \o "-" \o ToString(index))
    IN
        [i \in 1..Len(plans) |->
            LET put == PutMember(plans[i].keys, plans[i].kids, "id",
                                 MapPlanId(plans[i], i - 1))
            IN  Obj(put.keys, put.kids)]

\* POST after the call of the gateway, for a completion: the JSON text is
\* extracted and parsed, plans is checked to be an array, ids and the default
\* summary are filled in
MapResult(text, now) ==
    LET parse == JSONParse(ExtractJson(text))
    IN  IF ~parse.ok THEN MapFailure(500, MapErrorText("parse"))
        ELSE IF Nullish(parse.val) THEN MapFailure(500, MapErrorText("plans"))
        ELSE LET plans   == Get(parse.val, "plans")
                 summary == Get(parse.val, "summary")
             IN  IF ~Truthy(plans) \/ ~IsArray(plans)
                 THEN MapFailure(500, MapErrorText("format"))
                 ELSE IF \E i \in 1..Len(plans.kids) : Nullish(plans.kids[i])
                 THEN MapFailure(500, MapErrorText("id"))
                 ELSE PlansResponse(Arr(MapTravelPlans(plans.kids, now)),
                                    IF Truthy(summary) THEN summary
                                    ELSE Str("Here are some travel recommendations for this location."))

InitMap ==
    /\ body \in MapBodies
    /\ messages = <<>>
    /\ pc = "request"
    /\ analysis = NotAnalyzed
    /\ prior = NotAnalyzed
    /\ sent = NoSent
    /\ reply = NoReply
    /\ llm = NoDescription
    /\ raw = <<>>
    /\ validation = NotValidated
    /\ response = NoResponse
    /\ upstream = NoUpstream
    /\ client = NoClient
    /\ home = NoHome
    /\ mapView = NoMapView

\* POST up to the call of the gateway: the body is read, the coordinates are
\* checked and the prompts built
MapCallGateway ==
    /\ body.path = MapPath
    /\ pc = "request"
    /\ IF ~body.readable
       THEN /\ response' = MapFailure(500, UnreadableBodyError)
            /\ pc' = "done"
            /\ UNCHANGED sent
       ELSE IF body.coordinates # "numbers"
       THEN /\ response' = MapFailure(400, MapErrorText("coordinates"))
            /\ pc' = "done"
            /\ UNCHANGED sent
       ELSE IF ~body.named
       THEN /\ response' = MapFailure(500, MapErrorText("locationName"))
            /\ pc' = "done"
            /\ UNCHANGED sent
       ELSE /\ sent' = [messages |-> <<Entry("system", MapSystemPrompt),
                                       Entry("user", MapUserPrompt(body))>>,
                        maxTokens |-> 2000,
                        responseFormat |-> "text"]
            /\ pc' = "awaiting"
            /\ UNCHANGED response
    /\ UNCHANGED <<messages, analysis, prior, body, reply, llm, raw, validation, upstream,
                   client, home, mapView>>

\* openRouterClient.chat resolves with a completion
MapGatewayReturns ==
    /\ body.path = MapPath
    /\ pc = "awaiting"
    /\ \E d \in MapDescriptions :
          /\ llm' = d
          /\ raw' = Render(d)
    /\ upstream' = Exchange(upstream, sent, Completed)
    /\ reply' = [kind |-> "completion", message |-> <<>>]
    /\ pc' = "replied"
    /\ UNCHANGED <<messages, analysis, prior, body, sent, validation, response, client,
                   home, mapView>>

\* POST after the call of the gateway
MapRespond ==
    /\ body.path = MapPath
    /\ pc = "replied"
    /\ IF reply.kind = "error"
       THEN response' = MapFailure(500, reply.message)
       ELSE \E now \in 1..MaxClock : response' = MapResult(raw, now)
    /\ pc' = "done"
    /\ UNCHANGED <<messages, analysis, prior, body, sent, reply, llm, raw, validation,
                   upstream, client, home, mapView>>

NextMap == MapCallGateway \/ MapGatewayReturns \/ GatewayThrows \/ MapRespond

SpecMap == InitMap /\ [][NextMap]_vars

(***************************************************************************)
(* Both endpoints: a request is handled by the route of its path           *)
(***************************************************************************)
InitEndpoints == InitTurn \/ InitMap

NextEndpoints ==
    \/ POSTCallGateway
    \/ GatewayReturns
    \/ MapCallGateway
    \/ MapGatewayReturns
    \/ GatewayThrows
    \/ POSTRespond
    \/ MapRespond

SpecEndpoints == InitEndpoints /\ [][NextEndpoints]_vars

(***************************************************************************)
(* callAssistantWithRetry: the caller's loop of attempts                   *)
(***************************************************************************)
MaxRetries == 3

BaseDelay == 1000

\* the fetch rejects: no answer arrives
Rejected ==
    [kind |-> "rejected", status |-> 0, error |-> "", code |-> "", retryable |-> FALSE,
     detail |-> "Failed to fetch", text |-> <<>>, travelPlans |-> Undefined,
     summary |-> Undefined, fields |-> {}]

\* an answer of the hosting platform, whose body is not JSON
PlatformFailure(status) ==
    [kind |-> "failure", status |-> status, error |-> "", code |-> "", retryable |-> FALSE,
     detail |-> "", text |-> <<>>, travelPlans |-> Undefined,
     summary |-> Undefined, fields |-> {}]

\* what a fetch of /api/assistant can meet: the answers POST builds, an
\* answer of the platform in front of it, or no answer
AssistantAnswers ==
    {Failure(400, "Invalid request", "INVALID_REQUEST", FALSE, "Messages array is required"),
     Failure(400, "Invalid request", "INVALID_MESSAGE", FALSE,
             "Each message must have role and content"),
     ErrorResponse(UnreadableBodyError),
     ValidationResponse(Thrown("Error", "Invalid JSON response from AI", 0), <<>>),
     ValidationResponse(Thrown("Error", "Missing or invalid summary field", 0), <<>>),
     ValidationResponse(Returned(Document(Description("object", "text", "array", 2, 0,
                                                      "none", "bare"))), <<>>),
     MessageResponse(Refusal),
     PlatformFailure(413), PlatformFailure(504),
     Rejected}
    \cup {ErrorResponse(e) : e \in GatewayErrors}

\* response.ok
Ok(answer) == answer.status \in 200..299

\* the message of the error thrown inside the try for an answer
ThrownMessage(answer) ==
    IF answer.kind = "rejected" THEN answer.detail
    ELSE IF "message" \in answer.fields /\ answer.detail # "" THEN answer.detail
    ELSE IF answer.status >= 400 /\ answer.status < 500 /\ answer.status # 429
    THEN "Request failed with status " \o ToString(answer.status)
    ELSE "Server error: " \o ToString(answer.status)

\* faulty variant: the same delay before every retry
BackoffConstant(attempt) == BaseDelay

\* baseDelay * Math.pow(2, attempt)
Backoff(attempt) == BaseDelay * 2 ^ attempt

InitClient ==
    LET \* the logs callAssistantWithRetry is called with
        ClientLogs ==
            {<<Entry("user", UttBeach)>>,
             <<Entry("user", UttTrip)>>,
             <<Entry("user", UttBeach), Entry("assistant", UttEs), Entry("user", UttMoney)>>}
    IN
        /\ messages \in ClientLogs
        /\ analysis = NotAnalyzed
        /\ prior = NotAnalyzed
        /\ llm = NoDescription
        /\ raw = <<>>
        /\ validation = NotValidated
        /\ body = NoBody
        /\ pc = "fetch"
        /\ sent = NoSent
        /\ reply = NoReply
        /\ response = NoResponse
        /\ upstream = NoUpstream
        /\ client = NoClient
        /\ home = NoHome
        /\ mapView = NoMapView

\* fetch('/api/assistant', { body: JSON.stringify({ messages }) })
ClientFetch ==
    /\ pc = "fetch"
    /\ client.attempt < MaxRetries
    /\ body' = [path |-> AssistantPath, readable |-> TRUE, shape |-> "array",
                messages |-> messages]
    /\ client' = [client EXCEPT !.requests = @ + 1]
    /\ pc' = "pending"
    /\ UNCHANGED <<messages, analysis, prior, llm, raw, validation, sent, reply, response,
                   upstream, home, mapView>>

\* the request completes: the fetch resolves with an answer or rejects
FetchCompletes ==
    /\ pc = "pending"
    /\ \E answer \in AssistantAnswers : response' = answer
    /\ pc' = "answered"
    /\ UNCHANGED <<messages, analysis, prior, llm, raw, validation, body, sent, reply,
                   upstream, client, home, mapView>>

\* the rest of the loop body: an ok answer is returned; anything else is
\* thrown inside the try and caught by the catch of the same iteration, which
\* rethrows on the last attempt and otherwise starts the backoff timer
ClientSettle ==
    /\ pc = "answered"
    /\ IF Ok(response) /\ response.error = ""
       THEN /\ client' = [client EXCEPT !.outcome = "returned"]
            /\ pc' = "done"
       ELSE IF client.attempt = MaxRetries - 1
       THEN /\ client' = [client EXCEPT !.lastError = ThrownMessage(response),
                                        !.outcome = "thrown"]
            /\ pc' = "done"
       ELSE /\ client' = [client EXCEPT !.lastError = ThrownMessage(response),
                                        !.delays = Append(@, Backoff(client.attempt))]
            /\ pc' = "sleeping"
    /\ UNCHANGED <<messages, analysis, prior, llm, raw, validation, body, sent, reply,
                   response, upstream, home, mapView>>

\* the timer of the backoff fires and the loop goes to its next attempt
BackoffElapses ==
    /\ pc = "sleeping"
    /\ client' = [client EXCEPT !.attempt = @ + 1]
    /\ pc' = "fetch"
    /\ UNCHANGED <<messages, analysis, prior, llm, raw, validation, body, sent, reply,
                   response, upstream, home, mapView>>

NextClient == ClientFetch \/ FetchCompletes \/ ClientSettle \/ BackoffElapses

SpecClient == InitClient /\ [][NextClient]_vars

\* every request completes and the event loop runs the continuation and the
\* timer that are due
SpecClientFair == SpecClient /\ WF_vars(NextClient)

(***************************************************************************)
(* Home: the voice session of the page                                     *)
(***************************************************************************)
\* what callAssistantWithRetry(updatedMessages) settles with: the data of an
\* answer that is ok, or the message of the error thrown after the last attempt
Settlements ==
    {[thrown |-> <<>>, data |-> d] :
        d \in {MessageResponse(UttEs), MessageResponse(<<>>),
               ValidationResponse(Returned(Document(Description("object", "text", "array", 2, 0,
                                                                "none", "bare"))), <<>>)}}
    \cup {[thrown |-> e, data |-> NoResponse] :
            e \in {<<"F","a","i","l","e","d"," ","t","o"," ","f","e","t","c","h">>,
                   <<"S","e","r","v","e","r"," ","e","r","r","o","r",":"," ","5","0","4">>}}

\* the text setError is given in the catch block of handleTranscript; a
\* character outside ASCII is written by its code point
userFriendlyMessage(errorMessage) ==
    IF Includes(errorMessage, <<"n","e","t","w","o","r","k">>)
       \/ Includes(errorMessage, <<"f","e","t","c","h">>)
    THEN
        <<"U+1F310"," ","N","e","t","w","o","r","k"," ","e","r","r","o","r",":"," ","P","l",
          "e","a","s","e"," ","c","h","e","c","k"," ","y","o","u","r"," ","i","n","t","e",
          "r","n","e","t"," ","c","o","n","n","e","c","t","i","o","n"," ","a","n","d"," ",
          "t","r","y"," ","a","g","a","i","n",".">>
    ELSE IF Includes(errorMessage, <<"r","a","t","e"," ","l","i","m","i","t">>)
            \/ Includes(errorMessage, <<"4","2","9">>)
    THEN
        <<"U+23F1","U+FE0F"," ","T","o","o"," ","m","a","n","y"," ","r","e","q","u","e","s","t","s",
          ":"," ","P","l","e","a","s","e"," ","w","a","i","t"," ","a"," ","m","o","m","e",
          "n","t"," ","b","e","f","o","r","e"," ","t","r","y","i","n","g"," ","a","g","a",
          "i","n",".">>
    ELSE IF Includes(errorMessage, <<"t","i","m","e","o","u","t">>)
    THEN
        <<"U+23F0"," ","R","e","q","u","e","s","t"," ","t","i","m","e","d"," ","o","u","t",
          ":"," ","T","h","e"," ","s","e","r","v","e","r"," ","t","o","o","k"," ","t","o",
          "o"," ","l","o","n","g"," ","t","o"," ","r","e","s","p","o","n","d","."," ","P",
          "l","e","a","s","e"," ","t","r","y"," ","a","g","a","i","n",".">>
    ELSE IF Includes(errorMessage, <<"I","n","v","a","l","i","d"," ","J","S","O","N">>)
            \/ Includes(errorMessage, <<"p","a","r","s","e">>)
    THEN
        <<"U+1F527"," ","R","e","s","p","o","n","s","e"," ","e","r","r","o","r",":"," ","R",
          "e","c","e","i","v","e","d"," ","a","n"," ","i","n","v","a","l","i","d"," ","r",
          "e","s","p","o","n","s","e","."," ","P","l","e","a","s","e"," ","t","r","y"," ",
          "a","g","a","i","n",".">>
    ELSE <<"U+274C", " ">> \o errorMessage

\* Home mounts: the greeting screen, no message yet
InitSession ==
    /\ messages = <<>>
    /\ analysis = NotAnalyzed
    /\ prior = NotAnalyzed
    /\ llm = NoDescription
    /\ raw = <<>>
    /\ validation = NotValidated
    /\ body = NoBody
    /\ pc = "idle"
    /\ sent = NoSent
    /\ reply = NoReply
    /\ response = NoResponse
    /\ upstream = NoUpstream
    /\ client = NoClient
    /\ home = NoHome
    /\ mapView = NoMapView

\* handleStart: a click on the recorder of the greeting screen
handleStart ==
    /\ ~home.hasStarted
    /\ home' = [home EXCEPT !.hasStarted = TRUE, !.mode = "voice"]
    /\ UNCHANGED <<messages, analysis, prior, llm, raw, validation, body, pc, sent, reply,
                   response, upstream, client, mapView>>

\* handleTranscript(text) up to its await: the log and the state of Home it
\* leaves, with the request in flight holding the updatedMessages it captured
handleTranscript(text) ==
    LET kept == {i \in 1..Len(text) : ~IsSpace(text[i])}
        first == CHOOSE i \in kept : \A j \in kept : i <= j
        last == CHOOSE i \in kept : \A j \in kept : j <= i
        userMessage ==
            [role |-> "user", content |-> SubSeq(text, first, last), timestamp |-> home.now,
             textual |-> TRUE]
        updatedMessages == Append(messages, userMessage)
    IN  IF kept = {}
        THEN [messages |-> messages, home |-> home]
        ELSE [messages |-> updatedMessages,
              home |-> [home EXCEPT !.error = <<>>, !.isLoading = TRUE,
                                    !.inFlight = Append(@, updatedMessages),
                                    !.now = @ + 1,
                                    !.submitted = Append(@, userMessage),
                                    !.reset = FALSE]]

\* recognition.onresult with a final transcript: onTranscript(final). The
\* recognition is continuous, and disabled only disables the button, so a
\* transcript can arrive while isLoading
Transcript ==
    /\ home.hasStarted
    /\ home.now < MaxNow
    /\ \E final \in {UttBeach, <<" ","e","s"," ">>, <<" ">>} :
          LET next == handleTranscript(final)
          IN  /\ messages' = next.messages
              /\ home' = next.home
    /\ UNCHANGED <<analysis, prior, llm, raw, validation, body, pc, sent, reply, response,
                   upstream, client, mapView>>

\* the await of callAssistantWithRetry settles for one of the requests in
\* flight: the rest of the try block or the catch block, then finally
TurnSettles ==
    /\ \E i \in 1..Len(home.inFlight), outcome \in Settlements :
          LET updatedMessages == home.inFlight[i]
              data == outcome.data
              returned == outcome.thrown = <<>>
              hasMessage == returned /\ data.text # <<>>
              hasPlans == returned /\ Truthy(data.travelPlans)
                          /\ Len(data.travelPlans.kids) > 0
              assistantMessage ==
                  [role |-> "assistant", content |-> data.text, timestamp |-> home.now,
                   textual |-> TRUE]
          IN  /\ messages' = IF hasMessage THEN Append(updatedMessages, assistantMessage)
                             ELSE messages
              /\ home' = [home EXCEPT
                            !.inFlight = SubSeq(@, 1, i - 1) \o SubSeq(@, i + 1, Len(@)),
                            !.now = IF hasMessage THEN @ + 1 ELSE @,
                            !.travelPlans = IF hasPlans THEN data.travelPlans ELSE @,
                            !.summary = IF ~hasPlans THEN @
                                        ELSE IF Truthy(data.summary) THEN data.summary
                                        ELSE Null,
                            !.error = IF returned THEN @
                                      ELSE userFriendlyMessage(outcome.thrown),
                            !.isLoading = FALSE,
                            !.received = IF returned THEN Append(@, data) ELSE @]
    /\ UNCHANGED <<analysis, prior, llm, raw, validation, body, pc, sent, reply, response,
                   upstream, client, mapView>>

\* handleVoiceError: the recorder reports an error of the recognition
handleVoiceError ==
    /\ home.hasStarted
    /\ home' = [home EXCEPT !.error =
                   <<"N","o"," ","s","p","e","e","c","h"," ","d","e","t","e","c","t","e","d",
                     "."," ","P","l","e","a","s","e"," ","t","r","y"," ","a","g","a","i","n",
                     ".">>]
    /\ UNCHANGED <<messages, analysis, prior, llm, raw, validation, body, pc, sent, reply,
                   response, upstream, client, mapView>>

\* the button Retry Last Message of the error alert
RetryLastMessage ==
    /\ home.hasStarted
    /\ home.error # <<>>
    /\ Len(messages) > 0
    /\ home.now < MaxNow
    /\ LET lastUserMessage == messages[Len(messages)]
           next == handleTranscript(lastUserMessage.content)
       IN  IF lastUserMessage.role = "user"
           THEN /\ messages' = next.messages
                /\ home' = [next.home EXCEPT !.retries = @ + 1]
           ELSE UNCHANGED <<messages, home>>
    /\ UNCHANGED <<analysis, prior, llm, raw, validation, body, pc, sent, reply, response,
                   upstream, client, mapView>>

\* handleBack: the session is reset to the greeting screen; nothing cancels
\* the requests in flight
handleBack ==
    /\ home.hasStarted
    /\ messages' = <<>>
    /\ home' = [home EXCEPT !.hasStarted = FALSE, !.mode = "", !.travelPlans = Null,
                            !.summary = Null, !.error = <<>>, !.submitted = <<>>,
                            !.reset = TRUE]
    /\ UNCHANGED <<analysis, prior, llm, raw, validation, body, pc, sent, reply, response,
                   upstream, client, mapView>>

NextSession ==
    handleStart \/ Transcript \/ TurnSettles \/ handleVoiceError \/ RetryLastMessage
    \/ handleBack

SpecSession == InitSession /\ [][NextSession]_vars

(***************************************************************************)
(* MapView: the clicks on the map                                          *)
(***************************************************************************)
\* cooldownPeriod
CooldownPeriod == 20000

\* faulty variant: a click exactly one period after the accepted one is refused
OnCooldownInclusive(now, lastClickTime) ==
    now - lastClickTime <= CooldownPeriod /\ lastClickTime > 0

\* timeSinceLastClick < cooldownPeriod && lastClickTime > 0
OnCooldown(now, lastClickTime) ==
    now - lastClickTime < CooldownPeriod /\ lastClickTime > 0

\* the text setError is given in the catch block of handleMapClick
mapFriendlyMessage(errorMessage) ==
    IF Includes(ToLowerCase(errorMessage), <<"r","a","t","e"," ","l","i","m","i","t">>)
    THEN
        <<"U+23F1","U+FE0F"," ","R","a","t","e"," ","l","i","m","i","t"," ","r","e","a","c","h","e",
          "d",":"," ","F","r","e","e"," ","m","o","d","e","l","s"," ","h","a","v","e"," ",
          "l","i","m","i","t","s","."," ","P","l","e","a","s","e"," ","w","a","i","t"," ",
          "3","0","-","6","0"," ","s","e","c","o","n","d","s"," ","b","e","f","o","r","e",
          " ","c","l","i","c","k","i","n","g"," ","a","n","o","t","h","e","r"," ","l","o",
          "c","a","t","i","o","n",","," ","o","r"," ","c","o","n","s","i","d","e","r"," ",
          "u","p","g","r","a","d","i","n","g"," ","t","o"," ","a"," ","p","a","i","d"," ",
          "m","o","d","e","l"," ","f","o","r"," ","u","n","l","i","m","i","t","e","d"," ",
          "u","s","a","g","e",".">>
    ELSE IF Includes(ToLowerCase(errorMessage), <<"4","2","9">>)
    THEN
        <<"U+23F1","U+FE0F"," ","T","o","o"," ","m","a","n","y"," ","r","e","q","u","e","s","t","s",
          ":"," ","P","l","e","a","s","e"," ","w","a","i","t"," ","a"," ","m","o","m","e",
          "n","t"," ","b","e","f","o","r","e"," ","t","r","y","i","n","g"," ","a","g","a",
          "i","n",".">>
    ELSE errorMessage

\* MapView mounts at some time of the clock, nothing clicked yet
InitMapView ==
    /\ messages = <<>>
    /\ analysis = NotAnalyzed
    /\ prior = NotAnalyzed
    /\ llm = NoDescription
    /\ raw = <<>>
    /\ validation = NotValidated
    /\ body = NoBody
    /\ pc = "idle"
    /\ sent = NoSent
    /\ reply = NoReply
    /\ response = NoResponse
    /\ upstream = NoUpstream
    /\ client = NoClient
    /\ home = NoHome
    /\ mapView \in {[NoMapView EXCEPT !.now = t] : t \in {5000}}

\* time passes
Elapse ==
    /\ \E ms \in {7500, 12500} :
          /\ mapView.now + ms <= MaxElapsed
          /\ mapView' = [mapView EXCEPT !.now = @ + ms]
    /\ UNCHANGED <<messages, analysis, prior, llm, raw, validation, body, pc, sent, reply,
                   response, upstream, client, home>>

\* a click on the map: handleMapClick(coords) up to its first await
handleMapClick ==
    /\ mapView.clicks < MaxClicks
    /\ \E coords \in {1, 2} :
          LET now == mapView.now
              timeSinceLastClick == now - mapView.lastClickTime
              \* Math.ceil((cooldownPeriod - timeSinceLastClick) / 1000)
              remainingTime == (CooldownPeriod - timeSinceLastClick + 999) \div 1000
              digit(n) == <<"0","1","2","3","4","5","6","7","8","9">>[n + 1]
              seconds == IF remainingTime < 10 THEN <<digit(remainingTime)>>
                         ELSE <<digit(remainingTime \div 10), digit(remainingTime % 10)>>
              wait ==
                  <<"U+23F1","U+FE0F"," ","P","l","e","a","s","e"," ","w","a","i","t"," ">>
                  \o seconds \o
                  <<" ","s","e","c","o","n","d","s"," ","b","e","f","o","r","e"," ","c","l",
                    "i","c","k","i","n","g"," ","a","n","o","t","h","e","r"," ","l","o","c",
                    "a","t","i","o","n"," ","t","o"," ","a","v","o","i","d"," ","r","a","t",
                    "e"," ","l","i","m","i","t","s",".">>
          IN  IF OnCooldown(now, mapView.lastClickTime)
              THEN mapView' = [mapView EXCEPT !.error = wait,
                                              !.clicks = @ + 1]
              ELSE mapView' =
                      [mapView EXCEPT
                         !.lastClickTime = now,
                         !.clickedLocation = coords,
                         !.isLoading = TRUE,
                         !.error = <<>>,
                         !.travelPlans = Null,
                         !.summary = Null,
                         !.nearbyAttractions = 0,
                         !.inFlight = Append(@, [click |-> mapView.accepted + 1,
                                                 coords |-> coords, stage |-> "geocoding",
                                                 displayName |-> ""]),
                         !.requests.geocoding = @ + 1,
                         !.clicks = @ + 1, !.accepted = @ + 1]
    /\ UNCHANGED <<messages, analysis, prior, llm, raw, validation, body, pc, sent, reply,
                   response, upstream, client, home>>

\* the catch and finally blocks of handleMapClick for the click in flight i
Caught(i, errorMessage) ==
    [mapView EXCEPT !.error = mapFriendlyMessage(errorMessage),
                    !.isLoading = FALSE,
                    !.inFlight = SubSeq(@, 1, i - 1) \o SubSeq(@, i + 1, Len(@))]

\* the reverse geocoding of a click settles: the fetch rejects, the answer is
\* not ok, or the place has a display_name or none
GeocodingSettles ==
    /\ \E i \in 1..Len(mapView.inFlight), answer \in {"rejected", "notOk", "named", "unnamed"} :
          LET click == mapView.inFlight[i]
              displayName ==
                  IF answer = "unnamed"
                  THEN IF click.coords = 1 THEN "59.9139, 10.7522" ELSE "-12.0464, -77.0428"
                  ELSE IF click.coords = 1 THEN "Oslo, Norway" ELSE "Lima, Peru"
          IN  /\ click.stage = "geocoding"
              /\ mapView' =
                    IF answer = "rejected"
                    THEN Caught(i, <<"F","a","i","l","e","d"," ","t","o"," ","f","e","t","c","h">>)
                    ELSE IF answer = "notOk"
                    THEN Caught(i,
                           <<"F","a","i","l","e","d"," ","t","o"," ","f","e","t","c","h",
                             " ","l","o","c","a","t","i","o","n"," ","i","n","f","o","r",
                             "m","a","t","i","o","n">>)
                    ELSE [mapView EXCEPT
                            !.locationName = displayName,
                            !.shown.locationName = click.click,
                            !.inFlight[i].displayName = displayName,
                            !.inFlight[i].stage = "attractions",
                            !.requests.attractions = @ + 1]
    /\ UNCHANGED <<messages, analysis, prior, llm, raw, validation, body, pc, sent, reply,
                   response, upstream, client, home>>

\* fetchNearbyAttractions, and fetchWikipediaPlaces after it when it found
\* nothing, have settled: neither throws
AttractionsSettle ==
    /\ \E i \in 1..Len(mapView.inFlight), attractions \in {0, 3} :
          /\ mapView.inFlight[i].stage = "attractions"
          /\ mapView' = [mapView EXCEPT !.nearbyAttractions = attractions,
                                        !.inFlight[i].stage = "cities",
                                        !.requests.cities = @ + 1]
    /\ UNCHANGED <<messages, analysis, prior, llm, raw, validation, body, pc, sent, reply,
                   response, upstream, client, home>>

\* fetchNearbyCities has settled, it does not throw: the recommendations are
\* requested
CitiesSettle ==
    /\ \E i \in 1..Len(mapView.inFlight) :
          /\ mapView.inFlight[i].stage = "cities"
          /\ mapView' = [mapView EXCEPT !.inFlight[i].stage = "recommendations",
                                        !.requests.recommendations = @ + 1]
    /\ UNCHANGED <<messages, analysis, prior, llm, raw, validation, body, pc, sent, reply,
                   response, upstream, client, home>>

\* the fetch of /api/map-recommendations settles for a click: it rejects, or
\* it meets an answer of the route or one of the platform in front of it
RecommendationsSettle ==
    /\ \E i \in 1..Len(mapView.inFlight) :
          LET click == mapView.inFlight[i]
              plan == Obj(<<"destination", "id">>,
                          <<Str(click.displayName), Str("map-plan-1-0")>>)
              answers ==
                  {Rejected, PlatformFailure(504),
                   MapFailure(500, MapErrorText("parse")),
                   MapFailure(500, handleErrorResponse(
                       [kind |-> "http", status |-> 429, readable |-> TRUE,
                        message |-> <<>>])),
                   PlansResponse(Arr(<<plan, plan>>), Str(click.displayName)),
                   PlansResponse(Undefined, Str(""))}
          IN  /\ click.stage = "recommendations"
              /\ \E answer \in answers :
                    mapView' =
                        IF answer.kind = "rejected"
                        THEN Caught(i, <<"F","a","i","l","e","d"," ","t","o"," ",
                                         "f","e","t","c","h">>)
                        ELSE IF ~Ok(answer) \/ "error" \in answer.fields
                        THEN Caught(i, IF "error" \in answer.fields THEN answer.error
                                       ELSE
                                       <<"F","a","i","l","e","d"," ","t","o"," ","g","e","n","e",
                                         "r","a","t","e"," ","r","e","c","o","m","m","e","n","d",
                                         "a","t","i","o","n","s">>)
                        ELSE [mapView EXCEPT
                                !.travelPlans = IF Truthy(answer.travelPlans)
                                                THEN answer.travelPlans ELSE Arr(<<>>),
                                !.summary = IF Truthy(answer.summary)
                                            THEN answer.summary ELSE Null,
                                !.isPanelOpen = TRUE,
                                !.shown.travelPlans = click.click,
                                !.isLoading = FALSE,
                                !.inFlight = SubSeq(@, 1, i - 1) \o SubSeq(@, i + 1, Len(@))]
    /\ UNCHANGED <<messages, analysis, prior, llm, raw, validation, body, pc, sent, reply,
                   response, upstream, client, home>>

NextMapView ==
    Elapse \/ handleMapClick \/ GeocodingSettles \/ AttractionsSettle \/ CitiesSettle
    \/ RecommendationsSettle

SpecMapView == InitMapView /\ [][NextMapView]_vars

(***************************************************************************)
(* The session log and the analyzer applied to it                          *)
(***************************************************************************)
InitAnalyzer ==
    /\ messages = <<>>
    /\ analysis = NotAnalyzed
    /\ prior = NotAnalyzed
    /\ llm = NoDescription
    /\ raw = <<>>
    /\ validation = NotValidated
    /\ body = NoBody
    /\ pc = "idle"
    /\ sent = NoSent
    /\ reply = NoReply
    /\ response = NoResponse
    /\ upstream = NoUpstream
    /\ client = NoClient
    /\ home = NoHome
    /\ mapView = NoMapView

\* the caller appends one turn and sends the grown log as the next request
Submit ==
    LET Utterances ==
            {UttTrip, UttBeach, UttEs, UttMoney,
             <<"v","i","s","i","t">>,
             <<"C","o","s","t","a"," ","R","i","c","a">>}
    IN
        /\ Len(messages) < MaxLog
        /\ \E r \in {"user", "assistant", "system"}, c \in Utterances :
              messages' = Append(messages,
                                 [role |-> r, content |-> c, timestamp |-> Len(messages) + 1,
                                  textual |-> TRUE])
        /\ prior' = IF analysis.done THEN analysis ELSE prior
        /\ analysis' = NotAnalyzed
        /\ UNCHANGED <<llm, raw, validation, body, pc, sent, reply, response, upstream, client,
                       home, mapView>>

\* POST runs the analyzer on the request's messages
Analyze ==
    /\ ~analysis.done
    /\ analysis' = shouldGenerateRecommendations(messages)
    /\ UNCHANGED <<messages, prior, llm, raw, validation, body, pc, sent, reply, response,
                   upstream, client, home, mapView>>

NextAnalyzer == Submit \/ Analyze

SpecAnalyzer == InitAnalyzer /\ [][NextAnalyzer]_vars

(***************************************************************************)
(* The validator applied to a completion                                   *)
(***************************************************************************)
InitValidator ==
    /\ messages = <<>>
    /\ analysis = NotAnalyzed
    /\ prior = NotAnalyzed
    /\ llm \in Descriptions
    /\ raw = Render(llm)
    /\ validation = NotValidated
    /\ body = NoBody
    /\ pc = "idle"
    /\ sent = NoSent
    /\ reply = NoReply
    /\ response = NoResponse
    /\ upstream = NoUpstream
    /\ client = NoClient
    /\ home = NoHome
    /\ mapView = NoMapView

Validate ==
    /\ ~validation.done
    /\ validation' = validateRecommendationResponse(raw)
    /\ UNCHANGED <<messages, analysis, prior, llm, raw, body, pc, sent, reply, response,
                   upstream, client, home, mapView>>

NextValidator == Validate

SpecValidator == InitValidator /\ [][NextValidator]_vars

(***************************************************************************)
(* Properties of the Completeness Analyzer                                 *)
(***************************************************************************)
Range(seq) == {seq[i] : i \in 1..Len(seq)}

\* the corpus the analyzer reads from the current log
Corpus == ConversationText(messages)

\* C1: the analyzer reports ready exactly when a destination signal is
\* present and at least one of the budget and dates signals is present.
C1_ReadyRule ==
    analysis.done =>
        (analysis.shouldGenerate <=>
            (HasDestination(Corpus) /\ (HasBudget(Corpus) \/ HasDates(Corpus))))

\* ready through a dates signal alone, no budget signal in the log
C1_Witness ==
    /\ analysis.done
    /\ analysis.shouldGenerate
    /\ ~HasBudget(Corpus)
    /\ HasDates(Corpus)

\* C2: missing is exactly the set of categories whose signal is absent,
\* whether or not ready holds; without a destination signal the analyzer
\* reports not ready with "destination" among the missing.
C2_MissingExact ==
    analysis.done =>
        /\ Range(analysis.missingInfo) =
              (IF HasDestination(Corpus) THEN {} ELSE {"destination"})
              \cup (IF HasBudget(Corpus) THEN {} ELSE {"budget"})
              \cup (IF HasDates(Corpus) THEN {} ELSE {"dates"})
        /\ (~HasDestination(Corpus) =>
              ~analysis.shouldGenerate /\ "destination" \in Range(analysis.missingInfo))

\* ready, and still a category reported missing
C2_Witness ==
    /\ analysis.done
    /\ analysis.shouldGenerate
    /\ analysis.missingInfo # <<>>

\* the log reduced to what the analyzer may depend on: the role and content
\* of the non-system messages, in order
NonSystemContents(msgs) ==
    LET kept == SelectSeq(msgs, LAMBDA m : m.role # "system")
    IN  [i \in 1..Len(kept) |->
            [role |-> kept[i].role, content |-> kept[i].content, timestamp |-> 0]]

\* C3: the result is a function of the non-system message contents alone
\* (system messages and timestamps do not matter), and the step that
\* computes it leaves the log unchanged.
C3_PureOfNonSystem ==
    /\ [](analysis.done =>
            analysis = shouldGenerateRecommendations(NonSystemContents(messages)))
    /\ [][(~analysis.done /\ analysis'.done) => messages' = messages]_vars

\* an analysed log holding a system message whose content carries a signal
C3_Witness ==
    /\ analysis.done
    /\ ~analysis.shouldGenerate
    /\ \E i \in 1..Len(messages) :
          /\ messages[i].role = "system"
          /\ HasDestination(ToLowerCase(messages[i].content))
    /\ \E i \in 1..Len(messages) : messages[i].role = "user"

\* C4: as the log grows by appending, ready never reverts to not ready and
\* the missing set never grows.
C4_MonotoneUnderAppend ==
    (prior.done /\ analysis.done) =>
        /\ (prior.shouldGenerate => analysis.shouldGenerate)
        /\ Range(analysis.missingInfo) \subseteq Range(prior.missingInfo)

\* a ready log extended by one more message and analysed again
C4_Witness ==
    /\ prior.done
    /\ analysis.done
    /\ prior.shouldGenerate
    /\ Len(messages) >= 2

(***************************************************************************)
(* Properties of the Response Validator                                    *)
(***************************************************************************)
\* the completion is the described document as JSON text, possibly with
\* white space around it
Parseable == llm.wrap \in {"bare", "padded"}

\* the described document is an object carrying a plans array
HasPlansArray == llm.top = "object" /\ llm.plans = "array"

\* the plans the validator returned
ReturnedPlans == Get(validation.value, "plans").kids

\* the position of a plan of the described document that lacks a required field
DefectiveAt == IF llm.defect \in PlanDefects \ {"noId"} THEN llm.at ELSE 0

\* C5 as stated: any parseable JSON with more than 3 plans is answered with
\* exactly its first 3 plans, in order, as a success.
C5_AnyOverlongTruncated ==
    (validation.done /\ Parseable /\ HasPlansArray /\ llm.n > MaxReturnedPlans) =>
        /\ validation.ok
        /\ ReturnedPlans = SubSeq(PlanDocs(llm), 1, MaxReturnedPlans)

\* C5 amended: a parseable JSON with a non-empty text summary and more than
\* 3 plans, the first 3 of which carry the required fields, is answered with
\* exactly its first 3 plans, in order, as a success.
C5_OverlongTruncated ==
    (/\ validation.done /\ Parseable /\ HasPlansArray /\ llm.n > MaxReturnedPlans
     /\ llm.summary = "text"
     /\ DefectiveAt \notin 1..MaxReturnedPlans) =>
        /\ validation.ok
        /\ ReturnedPlans = SubSeq(PlanDocs(llm), 1, MaxReturnedPlans)
        /\ Get(validation.value, "summary") = SummaryDoc("text")

\* four plans, the fourth one defective, answered with the first three
C5_Witness ==
    /\ validation.done
    /\ validation.ok
    /\ Parseable
    /\ llm.n > MaxReturnedPlans
    /\ DefectiveAt > MaxReturnedPlans
    /\ Len(ReturnedPlans) = MaxReturnedPlans

\* C6: every successful validation carries between 2 and 3 plans.
C6_PlanCount ==
    (validation.done /\ validation.ok) =>
        (Len(ReturnedPlans) >= 2 /\ Len(ReturnedPlans) <= MaxReturnedPlans)

\* the document misses its summary, or its plans array is empty
SummaryMissing == llm.top # "object" \/ llm.summary # "text"

PlansEmpty == HasPlansArray /\ llm.n = 0

\* the failure is one of structure, not of syntax, and hands back no object
SchemaFailure ==
    /\ validation.done
    /\ ~validation.ok
    /\ validation.message # "Invalid JSON response from AI"
    /\ validation.value = Undefined

\* C7 as stated: a parseable JSON missing summary, or with an empty plans
\* array, or with any plan missing destination, fails with a schema error.
C7_AnyDefectRejected ==
    (/\ validation.done /\ Parseable
     /\ \/ SummaryMissing
        \/ PlansEmpty
        \/ (HasPlansArray /\ llm.at >= 1 /\ llm.defect = "noDestination")) =>
        SchemaFailure

\* C7 amended: a parseable JSON missing summary, or with an empty plans
\* array, or with one of its first 3 plans missing destination, fails with a
\* schema error and no object is returned.
C7_DefectRejected ==
    (validation.done /\ Parseable) =>
        /\ SummaryMissing =>
              SchemaFailure /\ validation.message \in {"Missing or invalid summary field",
                                                       "Cannot read properties of null"}
        /\ (~SummaryMissing /\ PlansEmpty) =>
              SchemaFailure /\ validation.message = "Plans must be a non-empty array"
        /\ (/\ ~SummaryMissing /\ HasPlansArray
            /\ llm.at \in 1..MaxReturnedPlans /\ llm.defect = "noDestination") =>
              /\ SchemaFailure
              /\ validation.message = "missing destination or country"
              /\ validation.plan = llm.at

\* the third of four plans misses its destination and the validation failed
C7_Witness ==
    /\ validation.done
    /\ ~validation.ok
    /\ Parseable
    /\ llm.n = 4
    /\ llm.at = 3
    /\ llm.defect = "noDestination"

\* C8: text that is no JSON, or whose braces do not balance, fails with the
\* parse error, which differs from every schema error, and no object is
\* returned.
C8_ParseError ==
    (validation.done /\ llm.wrap \in {"proseOnly", "truncated", "extraOpen", "extraClose"}) =>
        /\ ~validation.ok
        /\ validation.message = "Invalid JSON response from AI"
        /\ validation.value = Undefined
        /\ "Invalid JSON response from AI" \notin
              {"Missing or invalid summary field", "Plans must be a non-empty array",
               "missing destination or country", "missing duration information",
               "missing budget information", "missing highlights", "missing activities",
               "Cannot read properties of null"}

\* a well-formed recommendation followed by one closing brace too many
C8_Witness ==
    /\ validation.done
    /\ ~validation.ok
    /\ llm.wrap = "extraClose"
    /\ llm.summary = "text"
    /\ llm.n = 2
    /\ llm.at = 0

\* C9: in the Recommending phase, a valid recommendation object embedded in
\* surrounding text (a leading and a trailing sentence, or a fenced code
\* block) is extracted and the turn succeeds with that object's plans.
C9_EmbeddedExtracted ==
    (/\ pc = "done" /\ analysis.shouldGenerate /\ reply.kind = "completion"
     /\ llm.wrap \in {"prose", "fenced"}
     /\ HasPlansArray /\ llm.summary = "text" /\ llm.at = 0 /\ llm.n >= 2) =>
        /\ response.kind = "plans"
        /\ response.travelPlans =
              Arr(SubSeq(PlanDocs(llm), 1,
                         IF llm.n > MaxReturnedPlans THEN MaxReturnedPlans ELSE llm.n))

\* C10: valid JSON of the required shape with N plans, 2 <= N <= 3, is
\* returned with exactly those N plans, in order, every field unchanged.
C10_ValidUnchanged ==
    (/\ validation.done /\ Parseable /\ HasPlansArray
     /\ llm.summary = "text" /\ llm.at = 0
     /\ llm.n >= 2 /\ llm.n <= MaxReturnedPlans) =>
        /\ validation.ok
        /\ Len(ReturnedPlans) = llm.n
        /\ ReturnedPlans = PlanDocs(llm)
        /\ validation.value = Document(llm)

\* three well-formed plans with white space around the JSON text
C10_Witness ==
    /\ validation.done
    /\ validation.ok
    /\ llm.wrap = "padded"
    /\ llm.n = MaxReturnedPlans
    /\ llm.at = 0

MalformedTurnRequest ==
    /\ body.path = AssistantPath
    /\ body.readable
    /\ \/ body.shape # "array"
       \/ \E i \in 1..Len(body.messages) :
             \/ body.messages[i].role = ""
             \/ body.messages[i].content = <<>>
             \/ ~body.messages[i].textual

\* a geographic-turn body whose latitude or longitude is absent or not a number
MalformedMapRequest ==
    /\ body.path = MapPath
    /\ body.readable
    /\ body.coordinates \in {"absent", "latText", "lngAbsent"}

\* C12: request validation fails fast at both endpoints.  A conversation turn
\* with malformed messages and a geographic turn with malformed coordinates
\* are rejected with a failure, and at no moment of such a request has the
\* gateway been called: nothing was sent to it and nothing came back.
C12_FailsFast ==
    (MalformedTurnRequest \/ MalformedMapRequest) =>
        /\ pc \in {"request", "done"}
        /\ sent = NoSent
        /\ upstream = NoUpstream
        /\ reply = NoReply
        /\ pc = "done" => (response.kind = "failure" /\ response.status = 400)

\* a geographic turn without longitude has been answered 400
C12_Witness ==
    /\ pc = "done"
    /\ body.path = MapPath
    /\ body.coordinates = "lngAbsent"
    /\ response.status = 400
    /\ sent = NoSent

\* a conversation turn with a numeric content has been answered 400
C12_WitnessTurn ==
    /\ pc = "done"
    /\ body.path = AssistantPath
    /\ body.shape = "array"
    /\ body.messages = <<NumberEntry("user")>>
    /\ response.code = "INVALID_MESSAGE"

\* a conversation-turn request the handler rejects for what the caller sent:
\* a body that cannot be read, or one that fails the checks of the messages
RejectedForCallerInput ==
    /\ body.path = AssistantPath
    /\ pc = "done"
    /\ sent = NoSent

\* C13: every conversation-turn request rejected for malformed caller input
\* (missing or empty fields, a malformed message entry, an unreadable body)
\* is answered at once with a failure whose retryable is false.
C13_CallerErrorNotRetryable ==
    RejectedForCallerInput =>
        /\ response.kind = "failure"
        /\ ~response.retryable

\* a conversation turn answered after the gateway rejected
UpstreamFailed ==
    /\ body.path = AssistantPath
    /\ pc = "done"
    /\ reply.kind = "error"

\* C14: an upstream 401 is surfaced with retryable = false; an upstream 429,
\* an upstream 5xx and a network failure are surfaced with retryable = true.
C14_UpstreamRetryable ==
    UpstreamFailed =>
        /\ (upstream.kind = "http" /\ upstream.status = 401) => ~response.retryable
        /\ (\/ upstream.kind = "network"
            \/ upstream.kind = "http" /\ upstream.status = 429
            \/ upstream.kind = "http" /\ upstream.status \in 500..599) =>
              response.retryable

\* C15: an upstream 4xx other than 429 and 401 (for example 400) is surfaced
\* to the caller as not retryable.
C15_RequestErrorNotRetryable ==
    (/\ UpstreamFailed
     /\ upstream.kind = "http"
     /\ upstream.status \in 400..499
     /\ upstream.status \notin {401, 429}) =>
        /\ response.kind = "failure"
        /\ ~response.retryable

\* C16: every failure response of both endpoints carries all four fields
\* error, message, code and retryable.
C16_FailureShape ==
    (pc = "done" /\ response.kind = "failure") =>
        {"error", "message", "code", "retryable"} \subseteq response.fields

\* the plans of a successful response
ResponsePlans == response.travelPlans.kids

\* the object the geographic turn parsed out of the completion
MapParsed == JSONParse(ExtractJson(raw)).val

\* C17: a geographic turn succeeds only when the completion is a validated
\* recommendation set: its summary is a non-empty text, its plans are a
\* non-empty array of which at most 3 are returned, every returned plan has
\* the required fields; and the summary returned is the completion's own,
\* never a default put in its place.
C17_MapValidated ==
    (body.path = MapPath /\ pc = "done" /\ response.kind = "plans") =>
        /\ ~SummaryInvalid(MapParsed)
        /\ response.summary = Get(MapParsed, "summary")
        /\ Len(ResponsePlans) >= 1
        /\ Len(ResponsePlans) <= MaxReturnedPlans
        /\ \A i \in 1..Len(ResponsePlans) : PlanViolation(ResponsePlans[i]) = ""

\* C18: every plan of a successful result of either endpoint carries an id.
C18_EveryPlanHasId ==
    (pc = "done" /\ response.kind = "plans") =>
        \A i \in 1..Len(ResponsePlans) : Truthy(Get(ResponsePlans[i], "id"))

\* an answer the caller must not retry: a client error other than 429, a
\* configuration (credential) error, or a validation failure
NonRetryable(answer) ==
    /\ answer.kind = "failure"
    /\ \/ answer.status \in 400..499 /\ answer.status # 429
       \/ answer.code \in {"CONFIG_ERROR", "VALIDATION_ERROR"}

\* C19: callAssistantWithRetry does not retry a non-retryable outcome: once
\* such an answer has been handled, the error is reported at once (the call
\* is over, thrown) and no further request is sent.
C19_NoRetryOnNonRetryable ==
    (NonRetryable(response) /\ pc # "answered") =>
        /\ pc = "done"
        /\ client.outcome = "thrown"

\* the part of C20 that holds in every state
BoundedRetry ==
    /\ client.requests <= MaxRetries
    /\ client.requests <= client.attempt + 1
    /\ client.delays \in {<<>>, <<1000>>, <<1000, 2000>>}
    /\ pc \in {"pending", "answered"} => Len(client.delays) = client.requests - 1
    /\ pc \in {"sleeping", "fetch", "pending"} /\ client.requests > 0 =>
          ~(Ok(response) /\ response.kind \in {"message", "plans"})
    /\ client.outcome = "returned" =>
          /\ pc = "done"
          /\ Ok(response)
    /\ client.outcome = "thrown" =>
          /\ pc = "done"
          /\ client.requests = MaxRetries
          /\ ~Ok(response)
          /\ client.lastError = ThrownMessage(response)

\* C20: a turn sends at most 3 requests; after the k-th failed attempt
\* (k = 0, 1) the caller waits 1000 * 2^k ms before the next one; it stops at
\* the first success; after the third failure it reports the last error; and
\* the call always comes to an end when every request completes.
C20_BoundedRetry == []BoundedRetry /\ <>(pc = "done")

\* three failed requests with the waits 1000 and 2000 between them
C20_Witness ==
    /\ pc = "done"
    /\ client.outcome = "thrown"
    /\ client.requests = 3
    /\ client.delays = <<1000, 2000>>
    /\ response.code = "RATE_LIMIT"

C23_MessageNotEmpty ==
    (/\ body.path = AssistantPath /\ pc = "done" /\ analysis.done
     /\ ~analysis.shouldGenerate /\ response.kind = "message") =>
        response.text # <<>>

(***************************************************************************)
(* Properties of the voice session                                         *)
(***************************************************************************)
\* the handler of the step was handleTranscript: a request went in flight
Submitted == Len(home'.inFlight) > Len(home.inFlight)

\* handleTranscript appends the user turn to the log it read and sends the
\* log it has just written
AppendsAndSends ==
    Submitted =>
        /\ Len(messages') = Len(messages) + 1
        /\ SubSeq(messages', 1, Len(messages)) = messages
        /\ messages'[Len(messages')].role = "user"
        /\ home'.inFlight[Len(home'.inFlight)] = messages'

\* C24: within a session the log only grows at its end: every step keeps the
\* entries it had, in their order, and a step of handleTranscript appends the
\* user turn and sends the log it has just written.
C24_AppendOnly ==
    [][(home.hasStarted /\ home'.hasStarted) =>
          /\ Len(messages') >= Len(messages)
          /\ SubSeq(messages', 1, Len(messages)) = messages
          /\ AppendsAndSends]_vars

\* C25: an answer received with a message or with travel plans makes the log
\* end with a new assistant entry.
C25_ResponseStored ==
    [][(/\ Len(home'.received) > Len(home.received)
        /\ LET data == home'.received[Len(home'.received)]
           IN  data.text # <<>> \/ "travelPlans" \in data.fields) =>
          /\ messages' # messages
          /\ messages'[Len(messages')].role = "assistant"]_vars

\* C26: every user message submitted in the session is in the log.
C26_NoTurnLost ==
    \A i \in 1..Len(home.submitted) :
        \E j \in 1..Len(messages) : messages[j] = home.submitted[i]

\* C28: from handleBack to the next submitted turn the log is empty and
\* there are no plans and no summary.
C28_ResetStaysEmpty ==
    home.reset => (messages = <<>> /\ home.travelPlans = Null /\ home.summary = Null)

\* the number of user turns of a log
UserTurns(log) == Cardinality({i \in 1..Len(log) : log[i].role = "user"})

\* C30: a step of Retry Last Message leaves the number of user turns of the
\* log as it was.
C30_RetryKeepsLog ==
    [][home'.retries > home.retries => UserTurns(messages') = UserTurns(messages)]_vars

(***************************************************************************)
(* Properties of the map view                                              *)
(***************************************************************************)
\* the handler of the step was handleMapClick
Clicked == mapView'.clicks > mapView.clicks

\* C27: a click less than 20 seconds after the accepted click before it
\* issues no request, leaves the clicked location, the plans, the summary and
\* the time of the last accepted click as they were and sets only the wait
\* message; the first click, and a click 20 seconds or more after the last
\* accepted one, is accepted: its time and place are recorded and its
\* geocoding request is issued.
C27_Cooldown ==
    [][Clicked =>
          IF mapView.accepted > 0 /\ mapView.now - mapView.lastClickTime < 20 * 1000
          THEN /\ mapView'.requests = mapView.requests
               /\ mapView'.inFlight = mapView.inFlight
               /\ mapView'.clickedLocation = mapView.clickedLocation
               /\ mapView'.travelPlans = mapView.travelPlans
               /\ mapView'.summary = mapView.summary
               /\ mapView'.lastClickTime = mapView.lastClickTime
               /\ Includes(mapView'.error, <<"P","l","e","a","s","e"," ","w","a","i","t">>)
               /\ mapView' = [mapView EXCEPT !.error = mapView'.error, !.clicks = @ + 1]
          ELSE /\ mapView'.accepted = mapView.accepted + 1
               /\ mapView'.lastClickTime = mapView.now
               /\ Len(mapView'.inFlight) = Len(mapView.inFlight) + 1
               /\ mapView'.clickedLocation = mapView'.inFlight[Len(mapView'.inFlight)].coords
               /\ mapView'.requests.geocoding = mapView.requests.geocoding + 1]_vars

\* a click has been refused 7.5 seconds after the accepted one, which is still
\* loading
C27_Witness ==
    /\ mapView.accepted = 1
    /\ mapView.clicks = 2
    /\ mapView.now - mapView.lastClickTime = 7500
    /\ Includes(mapView.error, <<"w","a","i","t"," ","1","3"," ">>)
    /\ mapView.requests.geocoding = 1

\* C29: what is displayed is written by the most recently accepted click
\* only: a step that writes the location name or the plans and summary is a
\* step of the last click accepted.
C29_LateResultDiscarded ==
    [][\A field \in {"locationName", "travelPlans"} :
          mapView'.shown[field] # mapView.shown[field] =>
              mapView'.shown[field] = mapView'.accepted]_vars

====
